---- MODULE Spec2Model ----
(***************************************************************************)
(* Model of the CCWS Clockify core: the migration service                  *)
(* (server/internal/clockify/main.go) and the workspace webhook service.   *)
(*                                                                         *)
(* Strings that the code inspects character by character (task names,     *)
(* project names, client names) are sequences of one-character strings.    *)
(* Entity identifiers assigned by the remote service are positive          *)
(* integers; the dry-run placeholder identifier "dummy" is DummyID.        *)
(***************************************************************************)
EXTENDS Integers, Sequences, FiniteSets, TLC

\* ------------------------------------------------------------------ bounds
MaxEntries == 2        \* longest list of time entries the user owns
MaxFailures == 1       \* remote calls that may fail during one run

\* --------------------------------------------------------------- constants
DefaultBatchSize == 50
DummyID == 0

StrDefaultClient == <<"D","e","f","a","u","l","t"," ","C","l","i","e","n","t">>
StrClientSuffix == <<" ","C","l","i","e","n","t">>
StrSlashTask == <<"/","T","A","S","K">>
StrTaskPrefix == <<"T","A","S","K"," ">>
StrA == <<"A">>
StrB == <<"B">>

Digits == {"0","1","2","3","4","5","6","7","8","9"}
Whitespace == {" ", "\t", "\n", "\r"}

Put(f, k, v) == (k :> v) @@ f

\* ------------------------------------------------------------ pure helpers
\* strings.TrimSpace: drop leading and trailing white space
RECURSIVE TrimLeft(_)
TrimLeft(s) ==
  IF s # <<>> /\ Head(s) \in Whitespace THEN TrimLeft(Tail(s)) ELSE s

RECURSIVE TrimRight(_)
TrimRight(s) ==
  IF s # <<>> /\ s[Len(s)] \in Whitespace
    THEN TrimRight(SubSeq(s, 1, Len(s) - 1)) ELSE s

TrimSpace(s) == TrimRight(TrimLeft(s))

\* regexp `^(.+)/TASK(\d+)$`: the positions k at which "/TASK" starts such
\* that group 1 = name[1..k-1] is non-empty without a newline and group 2 =
\* name[k+5..] is a non-empty run of digits.  The digit run cannot contain
\* "/TASK", so at most one k qualifies, which is the greedy match.
MatchPositions(name) ==
  { k \in 2..(Len(name) - 5) :
      /\ SubSeq(name, k, k + 4) = StrSlashTask
      /\ \A p \in 1..(k - 1) : name[p] # "\n"
      /\ \A p \in (k + 5)..Len(name) : name[p] \in Digits }

\* MigrationService.ParseTaskName; ok = FALSE is the format error
ParseTaskName(cfg, taskName) ==
  IF MatchPositions(taskName) = {}
    THEN [ok |-> FALSE]
    ELSE LET k == CHOOSE p \in MatchPositions(taskName) : TRUE
             projectName == TrimSpace(SubSeq(taskName, 1, k - 1))
             taskNumber == SubSeq(taskName, k + 5, Len(taskName))
             clientName ==
               IF ~cfg.ClientMapping.isNil
                 THEN IF projectName \in DOMAIN cfg.ClientMapping.map
                        THEN cfg.ClientMapping.map[projectName]
                        ELSE cfg.DefaultClientName
                 ELSE IF cfg.CreateClients
                        THEN projectName \o StrClientSuffix
                        ELSE cfg.DefaultClientName
         IN [ok |-> TRUE,
             OriginalTaskName |-> taskName,
             ProjectName |-> projectName,
             TaskNumber |-> taskNumber,
             NewTaskName |-> StrTaskPrefix \o taskNumber,
             ClientName |-> clientName]

\* ------------------------------------------------------------ the inputs
\* Names of the tasks of the source project, by task ID (remote, read-only)
SourceTasks ==
  [t \in {"t1", "t2", "t3", "t4"} |->
     CASE t = "t1" -> StrA \o StrSlashTask \o <<"1">>
       [] t = "t2" -> StrA \o StrSlashTask \o <<"2">>
       [] t = "t3" -> StrB \o StrSlashTask \o <<"1">>
       [] t = "t4" -> StrA \o StrSlashTask]

\* The time entries the user may own in the source workspace: entries of the
\* source project with a parsable or unparsable task, without a task, with a
\* null time interval, and an entry of another project.
EntryKinds ==
  { [TaskID |-> t, ProjectID |-> "src", hasInterval |-> TRUE] :
       t \in {"t1", "t2", "t3", "t4", ""} }
  \cup { [TaskID |-> "t1", ProjectID |-> "src", hasInterval |-> FALSE],
         [TaskID |-> "t1", ProjectID |-> "other", hasInterval |-> TRUE] }

EntryLists == UNION { [1..n -> EntryKinds] : n \in 0..MaxEntries }

\* TimeEntry.ID is the entry's position in the user's list; the interval
\* (read only when hasInterval), the billable flag, the description and the
\* tags differ from one entry to the next
WithIDs(kinds) ==
  [n \in 1..Len(kinds) |->
     [ID |-> n, TaskID |-> kinds[n].TaskID, ProjectID |-> kinds[n].ProjectID,
      hasInterval |-> kinds[n].hasInterval,
      Start |-> 10 * n, End |-> 10 * n + 5,
      Billable |-> (n % 2 = 1),
      Description |-> <<"entry", n>>,
      TagIDs |-> <<n, n + 1>>]]

\* m.targetWorkspace.ID and m.currentUser.ID, set by initializeWorkspaces
TargetWorkspaceID == "target-workspace"
CurrentUserID == "current-user"

Configs ==
  [DryRun : BOOLEAN, CreateClients : BOOLEAN, BatchSize : {0, 1, 2},
   DefaultClientName : {<<>>},
   ClientMapping : {[isNil |-> TRUE, map |-> <<>>]}]

\* Target workspace before the run: empty, or holding client "A Client",
\* project "A" and its task "TASK 1"
RemoteInits ==
  { [clients |-> {}, projects |-> {}, tasks |-> {}, timeEntries |-> <<>>,
     nextId |-> 1],
    [clients |-> {[ID |-> 1, Name |-> StrA \o StrClientSuffix]},
     projects |-> {[ID |-> 2, Name |-> StrA]},
     tasks |-> {[ID |-> 3, Name |-> StrTaskPrefix \o <<"1">>, ProjectID |-> 2]},
     timeEntries |-> <<>>, nextId |-> 4] }

\* ------------------------------------------------------------- the state
VARIABLES
  input,        \* the run's inputs: the caller's config, the user's entries,
                \* the target workspace as the run found it, and how many
                \* remote calls may fail
  config,       \* *MigrationConfig, shared between caller and service
  pc,           \* where the run is
  stats,        \* *MigrationStats
  cache,        \* targetClients, targetProjects, targetTasks
  ws,           \* currentUser, sourceWorkspace, sourceProject, targetWorkspace
  timeEntries,  \* the entries fetched for the source project
  loop,         \* processTimeEntries / processBatch loop counters
  ret,          \* what ExecuteMigration returned
  remote,       \* the target workspace at the remote service
  hist,         \* observations: remote calls issued, entries attempted
  prev,         \* the outcome of the caller's previous run, if any
  webhooks,     \* WorkspaceWebhookService.webhooks: event -> webhook ID
  remoteHooks,  \* IDs of the webhooks registered at the remote service
  nCreate,      \* calls of Create so far
  whLast,       \* observation: what the last Create or Delete did
  table,        \* eventToObject: event -> address of its template object
  heap,         \* the objects allocated so far, by address
  deliveries,   \* the calls of ProcessWebhook, finished or under way
  probe,        \* the last call of a pure function: its input and output
  proc          \* the server process: main, its HTTP server and handlers

migVars == <<input, config, pc, stats, cache, ws, timeEntries, loop, ret,
             remote, hist, prev>>

whVars == <<webhooks, remoteHooks, nCreate, whLast>>

dispVars == <<table, heap, deliveries, probe, proc>>

vars == <<migVars, whVars, dispVars>>

EmptyStats ==
  [TimeEntriesProcessed |-> 0, TimeEntriesCreated |-> 0, ProjectsCreated |-> 0,
   TasksCreated |-> 0, ClientsCreated |-> 0, Errors |-> <<>>,
   EndTimeSet |-> FALSE]

\* No project resolution observed in the last entry
NoResolution ==
  [name |-> <<>>, again |-> FALSE, prior |-> FALSE, calls |-> <<>>,
   ok |-> FALSE, id |-> DummyID]

\* results: the entries handed to processTimeEntry and what it returned, in
\* order; calls: the remote calls of the entry processed last, in order;
\* cX / okX: create calls / successful create calls per name; lX: listings
\* consulted per name; fX: resolutions per name that returned an error;
\* triedProj: project names handed to getOrCreateProject; resolvedProj: the
\* ID each project name first resolved to; lastProj: the project resolution
\* of the entry processed last; initFailAt: the failed initialization stage.
EmptyHist ==
  [results |-> <<>>, calls |-> <<>>,
   cClient |-> <<>>, cProject |-> <<>>, cTask |-> <<>>, cTimeEntry |-> 0,
   okClient |-> <<>>, okProject |-> <<>>, okTask |-> <<>>,
   lProject |-> <<>>, lTask |-> <<>>,
   fClient |-> <<>>, fProject |-> <<>>, fTask |-> <<>>,
   triedProj |-> {}, resolvedProj |-> <<>>, lastProj |-> NoResolution,
   failures |-> 0, initFailAt |-> 0]

NoPrev == [mode |-> "none"]

EmptyCache == [clients |-> <<>>, projects |-> <<>>, tasks |-> <<>>]

NoWorkspaces ==
  [currentUser |-> FALSE, sourceWorkspace |-> FALSE, sourceProject |-> FALSE,
   targetWorkspace |-> FALSE]

NoLoop == [i |-> 0, end |-> 0, pos |-> 0, inBatch |-> FALSE]

\* ----------------------------------------------- the event->shape table
MaxDeliveries == 2     \* calls of ProcessWebhook in one session

\* the keys of eventToObject, in the order of the map literal
EventOrder ==
  <<"NEW_TIMER_STARTED", "TIMER_STOPPED", "NEW_CLIENT", "NEW_PROJECT",
    "NEW_TAG">>

\* the type of the template each event is mapped to
EventShape ==
  <<"TimeEntry", "TimeEntry", "Client", "Project", "Tag">>

\* The template objects &TimeEntry{}, &TimeEntry{}, &Client{}, &Project{},
\* &Tag{} built by the map literal: one object per event, zero-valued.  The
\* address of an object is its index in the heap.
Templates ==
  [a \in 1..Len(EventOrder) |-> [type |-> EventShape[a], val |-> "zero"]]

eventToObject ==
  [e \in {EventOrder[a] : a \in 1..Len(EventOrder)} |->
     CHOOSE a \in 1..Len(EventOrder) : EventOrder[a] = e]

NilObject == 0

NoDelivery ==
  [pc |-> "idle", req |-> <<>>, template |-> NilObject, obj |-> NilObject,
   event |-> "", payload |-> NilObject, err |-> "none"]

\* the server process before main runs: no webhook created, no deferred
\* call, no signal handler, no listener, no delivery handled
NoProcess ==
  [main |-> "start", created |-> FALSE, deferred |-> FALSE,
   notified |-> FALSE, pending |-> FALSE, inShutdown |-> FALSE,
   listen |-> "off", inflight |-> 0, signals |-> 0, deletes |-> 0,
   deleteSaw |-> [accepting |-> FALSE, inflight |-> 0],
   log |-> "", last |-> [called |-> FALSE]]

\* The state before NewMigrationService, for runs in which at most `budget`
\* remote calls fail
InitOf(budget) ==
  /\ input \in [config : Configs, entries : EntryLists, remote : RemoteInits,
                 budget : {budget}]
  /\ config = input.config
  /\ pc = "start"
  /\ stats = EmptyStats
  /\ cache = EmptyCache
  /\ ws = NoWorkspaces
  /\ timeEntries = <<>>
  /\ loop = NoLoop
  /\ ret = "none"
  /\ remote = input.remote
  /\ hist = EmptyHist
  /\ prev = NoPrev
  /\ webhooks = <<>>
  /\ remoteHooks = {}
  /\ nCreate = 0
  /\ whLast = [op |-> "none"]
  /\ table = eventToObject
  /\ heap = Templates
  /\ deliveries = [d \in 1..MaxDeliveries |-> NoDelivery]
  /\ probe = [fn |-> "none"]
  /\ proc = NoProcess

Init == InitOf(MaxFailures)

\* ------------------------------------------------- NewMigrationService
NewMigrationService ==
  /\ pc = "start"
  /\ config' = [config EXCEPT
       !.BatchSize = IF @ <= 0 THEN DefaultBatchSize ELSE @,
       !.DefaultClientName = IF @ = <<>> THEN StrDefaultClient ELSE @]
  /\ stats' = EmptyStats
  /\ cache' = EmptyCache
  /\ pc' = "initializing"
  /\ UNCHANGED <<input, ws, timeEntries, loop, ret, remote, hist, prev>>
  /\ UNCHANGED <<whVars, dispVars>>

\* ------------------------------------------------- initializeWorkspaces
\* The stages of initializeWorkspaces, in order; a stage fails when its
\* remote call fails or the named object does not exist.
InitStages == <<"user", "source_ws", "source_project", "target_ws", "clients">>

\* cacheTargetClients: every client of every page fetched is cached by name
\* cacheTargetClients storing one of the listed clients only
cacheTargetClients_FirstOnly(clients) ==
  IF clients = {} THEN <<>>
  ELSE LET c == CHOOSE x \in clients : \A y \in clients : x.ID <= y.ID
       IN (c.Name :> c)

\* cacheTargetClients storing none of the listed clients
cacheTargetClients_Empty(clients) == <<>>

cacheTargetClients(clients) ==
  [n \in {c.Name : c \in clients} |-> CHOOSE c \in clients : c.Name = n]

\* initializeWorkspaces with the error of cacheTargetClients dropped
initializeWorkspaces_IgnoresClients(failAt) ==
  IF failAt = 0 \/ failAt = 5 THEN "nil" ELSE "init_error"

\* What initializeWorkspaces returns when stage failAt fails (0: none does)
initializeWorkspaces(failAt) ==
  IF failAt = 0 THEN "nil" ELSE "init_error"

\* ExecuteMigration, step 1: initializeWorkspaces; its error is returned
Initialize ==
  /\ pc = "initializing"
  /\ \E failAt \in 0..Len(InitStages) :
       \E fetched \in SUBSET remote.clients :
         LET done(k) == failAt = 0 \/ k < failAt
             err == initializeWorkspaces(failAt)
         IN /\ failAt # Len(InitStages) => fetched = remote.clients
            /\ ws' = [currentUser |-> done(1), sourceWorkspace |-> done(2),
                      sourceProject |-> done(3), targetWorkspace |-> done(4)]
            /\ cache' = [cache EXCEPT !.clients =
                 IF done(4) THEN cacheTargetClients(fetched) ELSE @]
            /\ hist' = [hist EXCEPT !.initFailAt = failAt]
            /\ IF err = "nil"
                 THEN pc' = "fetching" /\ ret' = ret
                 ELSE pc' = "returned" /\ ret' = err
  /\ UNCHANGED <<input, config, stats, timeEntries, loop, remote, prev>>
  /\ UNCHANGED <<whVars, dispVars>>

\* ------------------------------------------------ GetProjectTimeEntries
\* The entries of the pages, kept when their project is the source project
RECURSIVE FilterByProject(_)
FilterByProject(entries) ==
  IF entries = <<>> THEN <<>>
  ELSE IF Head(entries).ProjectID = "src"
         THEN <<Head(entries)>> \o FilterByProject(Tail(entries))
         ELSE FilterByProject(Tail(entries))

\* GetProjectTimeEntries handing back the entries of the pages read before
\* the failing one, without the error
GetProjectTimeEntries_KeepsEarlierPages(entries, failPage) ==
  IF failPage # 0
    THEN [ok |-> TRUE,
          val |-> FilterByProject(SubSeq(entries, 1, failPage - 1))]
    ELSE [ok |-> TRUE, val |-> FilterByProject(entries)]

\* GetProjectTimeEntries over pages of one entry each: the request for page
\* failPage returns an error (0: none does; Len(entries) + 1 is the request
\* that would return the empty page); on an error the result is nil
GetProjectTimeEntries(entries, failPage) ==
  IF failPage # 0
    THEN [ok |-> FALSE, val |-> <<>>]
    ELSE [ok |-> TRUE, val |-> FilterByProject(entries)]

\* ExecuteMigration, step 2: a failing page makes the whole fetch fail
Fetch ==
  /\ pc = "fetching"
  /\ \E failPage \in 0..(Len(input.entries) + 1) :
       \E got \in {GetProjectTimeEntries(WithIDs(input.entries), failPage)} :
       \E ok \in {got.ok} :
       IF ok
         THEN /\ timeEntries' = got.val
              /\ loop' = NoLoop
              /\ pc' = "processing"
              /\ ret' = ret
         ELSE /\ pc' = "returned"
              /\ ret' = "fetch_error"
              /\ UNCHANGED <<timeEntries, loop>>
  /\ UNCHANGED <<input, config, stats, cache, ws, remote, hist, prev>>
  /\ UNCHANGED <<whVars, dispVars>>

\* ------------------------------------------------- the hierarchy resolver
\* The resolvers work on a record w of everything an entry's processing may
\* change: [cache, stats, remote, hist].  Each returns [ok, w, val].
Inc(bag, k) ==
  IF k \in DOMAIN bag THEN [bag EXCEPT ![k] = @ + 1] ELSE Put(bag, k, 1)

Count(bag, k) == IF k \in DOMAIN bag THEN bag[k] ELSE 0

\* a remote call: logged, and counted when it fails
Call(w, name, ok) ==
  [w EXCEPT !.hist.calls = Append(@, name),
            !.hist.failures = IF ok THEN @ ELSE @ + 1]

\* getSourceTask: the task's name, found by ID among the source tasks
getSourceTask(w, taskID, okList) ==
  IF taskID = ""
    THEN [ok |-> FALSE, w |-> w]
    ELSE LET w1 == Call(w, "IterProjectTasks(source)", okList)
         IN IF okList /\ taskID \in DOMAIN SourceTasks
              THEN [ok |-> TRUE, w |-> w1, val |-> SourceTasks[taskID]]
              ELSE [ok |-> FALSE, w |-> w1]

\* getOrCreateClient without `m.targetClients[clientName] = client`
getOrCreateClient_NoCacheStore(w, clientName, okCreate) ==
  IF clientName \in DOMAIN w.cache.clients
    THEN [ok |-> TRUE, w |-> w, val |-> w.cache.clients[clientName]]
  ELSE IF config.CreateClients /\ ~config.DryRun
    THEN LET w1 == [Call(w, "CreateClient", okCreate) EXCEPT
                      !.hist.cClient = Inc(@, clientName)]
             client == [ID |-> w.remote.nextId, Name |-> clientName]
         IN IF ~okCreate
              THEN [ok |-> FALSE, w |-> w1]
              ELSE [ok |-> TRUE, val |-> client,
                    w |-> [w1 EXCEPT
                      !.remote.clients = @ \cup {client},
                      !.remote.nextId = @ + 1,
                      !.stats.ClientsCreated = @ + 1,
                      !.hist.okClient = Inc(@, clientName)]]
  ELSE IF config.DryRun
    THEN [ok |-> TRUE, w |-> w, val |-> [ID |-> DummyID, Name |-> clientName]]
  ELSE [ok |-> FALSE, w |-> w]

getOrCreateClient(w, clientName, okCreate) ==
  IF clientName \in DOMAIN w.cache.clients
    THEN [ok |-> TRUE, w |-> w, val |-> w.cache.clients[clientName]]
  ELSE IF config.CreateClients /\ ~config.DryRun
    THEN LET w1 == [Call(w, "CreateClient", okCreate) EXCEPT
                      !.hist.cClient = Inc(@, clientName)]
             client == [ID |-> w.remote.nextId, Name |-> clientName]
         IN IF ~okCreate
              THEN [ok |-> FALSE, w |-> w1]
              ELSE [ok |-> TRUE, val |-> client,
                    w |-> [w1 EXCEPT
                      !.remote.clients = @ \cup {client},
                      !.remote.nextId = @ + 1,
                      !.cache.clients = Put(@, clientName, client),
                      !.stats.ClientsCreated = @ + 1,
                      !.hist.okClient = Inc(@, clientName)]]
  ELSE IF config.DryRun
    THEN [ok |-> TRUE, w |-> w, val |-> [ID |-> DummyID, Name |-> clientName]]
  ELSE [ok |-> FALSE, w |-> w]

\* getOrCreateProject without the cache check that precedes the listing
getOrCreateProject_NoCacheCheck(w, projectName, okList, okCreate) ==
    LET w1 == [Call(w, "IterProjects", okList) EXCEPT
                 !.hist.lProject = Inc(@, projectName)]
        found == {p \in w.remote.projects : p.Name = projectName}
    IN IF ~okList THEN [ok |-> FALSE, w |-> w1]
       ELSE IF found # {}
         THEN LET proj == CHOOSE p \in found : TRUE
              IN [ok |-> TRUE, val |-> proj,
                  w |-> [w1 EXCEPT !.cache.projects = Put(@, projectName, proj)]]
       ELSE IF config.DryRun
         THEN LET dummy == [ID |-> DummyID, Name |-> projectName]
              IN [ok |-> TRUE, val |-> dummy,
                  w |-> [w1 EXCEPT !.cache.projects = Put(@, projectName, dummy)]]
       ELSE
         LET w2 == [Call(w1, "CreateProject", okCreate) EXCEPT
                      !.hist.cProject = Inc(@, projectName)]
             project == [ID |-> w.remote.nextId, Name |-> projectName]
         IN IF ~okCreate
              THEN [ok |-> FALSE, w |-> w2]
              ELSE [ok |-> TRUE, val |-> project,
                    w |-> [w2 EXCEPT
                      !.remote.projects = @ \cup {project},
                      !.remote.nextId = @ + 1,
                      !.cache.projects = Put(@, projectName, project),
                      !.stats.ProjectsCreated = @ + 1,
                      !.hist.okProject = Inc(@, projectName)]]

getOrCreateProject(w, projectName, okList, okCreate) ==
  IF projectName \in DOMAIN w.cache.projects
    THEN [ok |-> TRUE, w |-> w, val |-> w.cache.projects[projectName]]
  ELSE
    LET w1 == [Call(w, "IterProjects", okList) EXCEPT
                 !.hist.lProject = Inc(@, projectName)]
        found == {p \in w.remote.projects : p.Name = projectName}
    IN IF ~okList THEN [ok |-> FALSE, w |-> w1]
       ELSE IF found # {}
         THEN LET proj == CHOOSE p \in found : TRUE
              IN [ok |-> TRUE, val |-> proj,
                  w |-> [w1 EXCEPT !.cache.projects = Put(@, projectName, proj)]]
       ELSE IF config.DryRun
         THEN LET dummy == [ID |-> DummyID, Name |-> projectName]
              IN [ok |-> TRUE, val |-> dummy,
                  w |-> [w1 EXCEPT !.cache.projects = Put(@, projectName, dummy)]]
       ELSE
         LET w2 == [Call(w1, "CreateProject", okCreate) EXCEPT
                      !.hist.cProject = Inc(@, projectName)]
             project == [ID |-> w.remote.nextId, Name |-> projectName]
         IN IF ~okCreate
              THEN [ok |-> FALSE, w |-> w2]
              ELSE [ok |-> TRUE, val |-> project,
                    w |-> [w2 EXCEPT
                      !.remote.projects = @ \cup {project},
                      !.remote.nextId = @ + 1,
                      !.cache.projects = Put(@, projectName, project),
                      !.stats.ProjectsCreated = @ + 1,
                      !.hist.okProject = Inc(@, projectName)]]

\* the cache key fmt.Sprintf("%s/%s", projectID, taskName): task names are
\* "TASK <digits>" and hold no '/', so the key determines both parts
TaskKey(projectID, taskName) == <<projectID, taskName>>

getOrCreateTask(w, projectID, taskName, okList, okCreate) ==
  LET cacheKey == TaskKey(projectID, taskName)
  IN
  IF cacheKey \in DOMAIN w.cache.tasks
    THEN [ok |-> TRUE, w |-> w, val |-> w.cache.tasks[cacheKey]]
  ELSE
    LET w1 == [Call(w, "IterProjectTasks(target)", okList) EXCEPT
                 !.hist.lTask = Inc(@, cacheKey)]
        found == {t \in w.remote.tasks :
                    t.ProjectID = projectID /\ t.Name = taskName}
    IN IF ~okList THEN [ok |-> FALSE, w |-> w1]
       ELSE IF found # {}
         THEN LET task == CHOOSE t \in found : TRUE
              IN [ok |-> TRUE, val |-> task,
                  w |-> [w1 EXCEPT !.cache.tasks = Put(@, cacheKey, task)]]
       ELSE IF config.DryRun
         THEN LET dummy == [ID |-> DummyID, Name |-> taskName,
                            ProjectID |-> projectID]
              IN [ok |-> TRUE, val |-> dummy,
                  w |-> [w1 EXCEPT !.cache.tasks = Put(@, cacheKey, dummy)]]
       ELSE
         LET w2 == [Call(w1, "CreateTask", okCreate) EXCEPT
                      !.hist.cTask = Inc(@, cacheKey)]
             task == [ID |-> w.remote.nextId, Name |-> taskName,
                      ProjectID |-> projectID]
         IN IF ~okCreate
              THEN [ok |-> FALSE, w |-> w2]
              ELSE [ok |-> TRUE, val |-> task,
                    w |-> [w2 EXCEPT
                      !.remote.tasks = @ \cup {task},
                      !.remote.nextId = @ + 1,
                      !.cache.tasks = Put(@, cacheKey, task),
                      !.stats.TasksCreated = @ + 1,
                      !.hist.okTask = Inc(@, cacheKey)]]

\* the request without the source entry's tags
NewTimeEntryRequest_DropsTags(entry, projectID, taskID) ==
  [Start |-> entry.Start, End |-> entry.End, Billable |-> entry.Billable,
   Description |-> entry.Description, ProjectID |-> projectID,
   TaskID |-> taskID, TagIDs |-> <<>>]

\* the NewTimeEntryRequest literal built by createTargetTimeEntry
NewTimeEntryRequest(entry, projectID, taskID) ==
  [Start |-> entry.Start, End |-> entry.End, Billable |-> entry.Billable,
   Description |-> entry.Description, ProjectID |-> projectID,
   TaskID |-> taskID, TagIDs |-> entry.TagIDs]

\* CreateTimeEntryForUser as the target sees it: the request posted to
\* /workspaces/<workspaceID>/user/<userID>/time-entries (source: the entry
\* the request was built for)
Posted(workspaceID, userID, request, entry) ==
  [workspaceID |-> workspaceID, userID |-> userID, request |-> request,
   source |-> entry.ID]

\* createTargetTimeEntry without the dry-run branch
createTargetTimeEntry_NoDryRun(w, entry, projectID, taskID, okCreate) ==
  IF ~entry.hasInterval
    THEN [err |-> "panic", w |-> w]
  ELSE
    LET w1 == [Call(w, "CreateTimeEntryForUser", okCreate) EXCEPT
                 !.hist.cTimeEntry = @ + 1]
        request == NewTimeEntryRequest(entry, projectID, taskID)
    IN IF ~okCreate
         THEN [err |-> "time_entry", w |-> w1]
         ELSE [err |-> "nil",
               w |-> [w1 EXCEPT
                 !.remote.timeEntries =
                   Append(@, Posted(TargetWorkspaceID, CurrentUserID,
                                    request, entry)),
                 !.stats.TimeEntriesCreated = @ + 1]]

\* createTargetTimeEntry counting the entry before the call's error is read
createTargetTimeEntry_CountsFailed(w, entry, projectID, taskID, okCreate) ==
  IF ~entry.hasInterval
    THEN [err |-> "panic", w |-> w]
  ELSE IF config.DryRun
    THEN [err |-> "nil", w |-> w]
  ELSE
    LET w1 == [Call(w, "CreateTimeEntryForUser", okCreate) EXCEPT
                 !.hist.cTimeEntry = @ + 1,
                 !.stats.TimeEntriesCreated = @ + 1]
        request == NewTimeEntryRequest(entry, projectID, taskID)
    IN IF ~okCreate
         THEN [err |-> "time_entry", w |-> w1]
         ELSE [err |-> "nil",
               w |-> [w1 EXCEPT
                 !.remote.timeEntries =
                   Append(@, Posted(TargetWorkspaceID, CurrentUserID,
                                    request, entry))]]

\* createTargetTimeEntry without `m.stats.TimeEntriesCreated++`
createTargetTimeEntry_NoCount(w, entry, projectID, taskID, okCreate) ==
  IF ~entry.hasInterval
    THEN [err |-> "panic", w |-> w]
  ELSE IF config.DryRun
    THEN [err |-> "nil", w |-> w]
  ELSE
    LET w1 == [Call(w, "CreateTimeEntryForUser", okCreate) EXCEPT
                 !.hist.cTimeEntry = @ + 1]
        request == NewTimeEntryRequest(entry, projectID, taskID)
    IN IF ~okCreate
         THEN [err |-> "time_entry", w |-> w1]
         ELSE [err |-> "nil",
               w |-> [w1 EXCEPT
                 !.remote.timeEntries =
                   Append(@, Posted(TargetWorkspaceID, CurrentUserID,
                                    request, entry))]]

\* createTargetTimeEntry.  Both branches read sourceEntry.TimeInterval.Start,
\* a nil pointer dereference (a panic) when the entry has no time interval.
createTargetTimeEntry(w, entry, projectID, taskID, okCreate) ==
  IF ~entry.hasInterval
    THEN [err |-> "panic", w |-> w]
  ELSE IF config.DryRun
    THEN [err |-> "nil", w |-> w]
  ELSE
    LET w1 == [Call(w, "CreateTimeEntryForUser", okCreate) EXCEPT
                 !.hist.cTimeEntry = @ + 1]
        request == NewTimeEntryRequest(entry, projectID, taskID)
    IN IF ~okCreate
         THEN [err |-> "time_entry", w |-> w1]
         ELSE [err |-> "nil",
               w |-> [w1 EXCEPT
                 !.remote.timeEntries =
                   Append(@, Posted(TargetWorkspaceID, CurrentUserID,
                                    request, entry)),
                 !.stats.TimeEntriesCreated = @ + 1]]

\* The outcomes of the remote calls one entry may issue (TRUE: no error).
\* processTimeEntry returns at the first error, so at most one call of an
\* entry fails: the one named by f.
FailPoints ==
  {"none", "src", "client", "listProj", "project", "listTask", "task",
   "timeEntry"}

Outcomes ==
  { [src |-> f # "src", client |-> f # "client", listProj |-> f # "listProj",
     project |-> f # "project", listTask |-> f # "listTask",
     task |-> f # "task", timeEntry |-> f # "timeEntry"] : f \in FailPoints }

\* the calls r.w logged that w0 had not
NewCalls(w0, r) ==
  SubSeq(r.w.hist.calls, Len(w0.hist.calls) + 1, Len(r.w.hist.calls))

\* the observation of one client, project or task resolution, from what the
\* resolver returned
ObserveClient(name, r) ==
  [r.w EXCEPT !.hist.fClient = IF r.ok THEN @ ELSE Inc(@, name)]

ObserveProject(w0, name, r) ==
  LET id == IF r.ok THEN r.val.ID ELSE DummyID
  IN [r.w EXCEPT
        !.hist.lastProj =
          [name |-> name, again |-> name \in w0.hist.triedProj,
           prior |-> name \in DOMAIN w0.hist.resolvedProj,
           calls |-> NewCalls(w0, r), ok |-> r.ok, id |-> id],
        !.hist.triedProj = @ \cup {name},
        !.hist.fProject = IF r.ok THEN @ ELSE Inc(@, name),
        !.hist.resolvedProj =
          IF r.ok /\ name \notin DOMAIN @ THEN Put(@, name, id) ELSE @]

ObserveTask(key, r) ==
  [r.w EXCEPT !.hist.fTask = IF r.ok THEN @ ELSE Inc(@, key)]

\* the observation of what processTimeEntry returned for the entry
ObserveResult(entry, r) ==
  [err |-> r.err,
   w |-> [r.w EXCEPT !.hist.results =
            Append(@, [entry |-> entry.ID, err |-> r.err])]]

\* processTimeEntry resolving the project before the client
processTimeEntry_ProjectBeforeClient(w, entry, o) ==
  LET w0 == [w EXCEPT !.hist.calls = <<>>, !.hist.lastProj = NoResolution]
      task == getSourceTask(w0, entry.TaskID, o.src)
      mapping == ParseTaskName(config, task.val)
      rp == getOrCreateProject(task.w, mapping.ProjectName, o.listProj,
                               o.project)
      wp == ObserveProject(task.w, mapping.ProjectName, rp)
      rc == getOrCreateClient(wp, mapping.ClientName, o.client)
      wc == ObserveClient(mapping.ClientName, rc)
      rt == getOrCreateTask(wc, rp.val.ID, mapping.NewTaskName,
                            o.listTask, o.task)
      wt == ObserveTask(TaskKey(rp.val.ID, mapping.NewTaskName), rt)
  IN IF ~task.ok THEN [err |-> "source_task", w |-> task.w]
     ELSE IF ~mapping.ok THEN [err |-> "parse", w |-> task.w]
     ELSE IF ~rp.ok THEN [err |-> "project", w |-> wp]
     ELSE IF ~rc.ok THEN [err |-> "client", w |-> wc]
     ELSE IF ~rt.ok THEN [err |-> "task", w |-> wt]
     ELSE createTargetTimeEntry(wt, entry, rp.val.ID, rt.val.ID, o.timeEntry)

\* the element of a one-element set
Only(S) == CHOOSE x \in S : TRUE

\* processTimeEntry: [err, w]; err = "nil" when the entry was migrated.
\* Each step's result is bound once ({ f(x) : x \in {e} }) and handed on.
processTimeEntry(w, entry, o) ==
  Only({
    IF ~task.ok THEN [err |-> "source_task", w |-> task.w]
    ELSE Only({
      IF ~mapping.ok THEN [err |-> "parse", w |-> task.w]
      ELSE Only({
        Only({
          IF ~rc.ok THEN [err |-> "client", w |-> wc]
          ELSE Only({
            Only({
              IF ~rp.ok THEN [err |-> "project", w |-> wp]
              ELSE Only({
                Only({
                  IF ~rt.ok THEN [err |-> "task", w |-> wt]
                  ELSE createTargetTimeEntry(wt, entry, rp.val.ID, rt.val.ID,
                                             o.timeEntry)
                  : wt \in {ObserveTask(TaskKey(rp.val.ID, mapping.NewTaskName),
                                        rt)} })
                : rt \in {getOrCreateTask(wp, rp.val.ID, mapping.NewTaskName,
                                          o.listTask, o.task)} })
              : wp \in {ObserveProject(wc, mapping.ProjectName, rp)} })
            : rp \in {getOrCreateProject(wc, mapping.ProjectName,
                                         o.listProj, o.project)} })
          : wc \in {ObserveClient(mapping.ClientName, rc)} })
        : rc \in {getOrCreateClient(task.w, mapping.ClientName, o.client)} })
      : mapping \in {ParseTaskName(config, task.val)} })
    : task \in {getSourceTask([w EXCEPT !.hist.calls = <<>>,
                                        !.hist.lastProj = NoResolution],
                              entry.TaskID, o.src)} })

\* ------------------------------------------- processTimeEntries / Batch
\* the batch end without the clamp to the number of entries
Min_Second(a, b) == b

Min(a, b) == IF a < b THEN a ELSE b

\* processBatch without the `continue` after a failed entry
processBatch_NoContinue(st, entry, err) ==
  IF err # "nil"
    THEN [abort |-> FALSE,
          stats |-> [st EXCEPT
                       !.Errors = Append(@, [entry |-> entry.ID, err |-> err]),
                       !.TimeEntriesProcessed = @ + 1]]
    ELSE [abort |-> FALSE,
          stats |-> [st EXCEPT !.TimeEntriesProcessed = @ + 1]]

\* processBatch returning the error of a failed entry to processTimeEntries
processBatch_AbortsOnError(st, entry, err) ==
  IF err # "nil"
    THEN [abort |-> TRUE,
          stats |-> [st EXCEPT !.Errors =
                       Append(@, [entry |-> entry.ID, err |-> err])]]
    ELSE [abort |-> FALSE,
          stats |-> [st EXCEPT !.TimeEntriesProcessed = @ + 1]]

\* processBatch, one iteration: a failed entry is recorded and the loop
\* continues; processBatch itself never returns an error (abort = FALSE)
processBatch(st, entry, err) ==
  IF err # "nil"
    THEN [abort |-> FALSE,
          stats |-> [st EXCEPT !.Errors =
                       Append(@, [entry |-> entry.ID, err |-> err])]]
    ELSE [abort |-> FALSE,
          stats |-> [st EXCEPT !.TimeEntriesProcessed = @ + 1]]

\* processTimeEntries: the next batch is timeEntries[i:end]
BeginBatch ==
  /\ pc = "processing"
  /\ ~loop.inBatch
  /\ loop.i < Len(timeEntries)
  /\ loop' = [loop EXCEPT
       !.end = Min(loop.i + config.BatchSize, Len(timeEntries)),
       !.pos = loop.i,
       !.inBatch = TRUE]
  /\ UNCHANGED <<input, config, pc, stats, cache, ws, timeEntries, ret, remote,
                 hist, prev>>
  /\ UNCHANGED <<whVars, dispVars>>

\* processBatch: processTimeEntry on the next entry of the batch, the remote
\* answering as o says
ProcessEntryWith(o) ==
  /\ pc = "processing"
  /\ loop.inBatch
  /\ loop.pos < loop.end
  /\ LET entry == timeEntries[loop.pos + 1]
         w == [cache |-> cache, stats |-> stats, remote |-> remote,
               hist |-> hist]
     IN \E r \in {ObserveResult(entry, processTimeEntry(w, entry, o))} :
        \E b \in {processBatch(r.w.stats, entry, r.err)} :
        /\ r.w.hist.failures <= input.budget
        /\ cache' = r.w.cache
        /\ remote' = r.w.remote
        /\ hist' = r.w.hist
        /\ IF r.err = "panic"
             THEN /\ pc' = "crashed"
                  /\ stats' = r.w.stats
                  /\ UNCHANGED <<loop, ret>>
             ELSE /\ stats' = b.stats
                  /\ IF b.abort
                       THEN /\ pc' = "returned"
                            /\ ret' = "process_error"
                            /\ loop' = loop
                       ELSE /\ pc' = pc
                            /\ ret' = ret
                            /\ loop' = [loop EXCEPT !.pos = @ + 1]
  /\ UNCHANGED <<input, config, ws, timeEntries>>
  /\ UNCHANGED <<whVars, dispVars>>

ProcessEntry ==
  /\ \E o \in Outcomes : ProcessEntryWith(o)
  /\ UNCHANGED prev

\* the loop of processTimeEntries stepping one entry too far
NextBatchStart_SkipsOne(i, size) == i + size + 1

\* `i += m.config.BatchSize`
NextBatchStart(i, size) == i + size

\* processBatch returned nil: processTimeEntries moves to the next batch
EndBatch ==
  /\ pc = "processing"
  /\ loop.inBatch
  /\ loop.pos >= loop.end
  /\ loop' = [loop EXCEPT !.i = NextBatchStart(@, config.BatchSize),
                          !.inBatch = FALSE]
  /\ UNCHANGED <<input, config, pc, stats, cache, ws, timeEntries, ret, remote,
                 hist, prev>>
  /\ UNCHANGED <<whVars, dispVars>>

\* ExecuteMigration after step 3: stamp EndTime, return the stats and nil
Finalize ==
  /\ pc = "processing"
  /\ ~loop.inBatch
  /\ loop.i >= Len(timeEntries)
  /\ stats' = [stats EXCEPT !.EndTimeSet = TRUE]
  /\ pc' = "returned"
  /\ ret' = "nil"
  /\ UNCHANGED <<input, config, cache, ws, timeEntries, loop, remote, hist,
                 prev>>
  /\ UNCHANGED <<whVars, dispVars>>

Next ==
  \/ NewMigrationService
  \/ Initialize
  \/ Fetch
  \/ BeginBatch
  \/ ProcessEntry
  \/ EndBatch
  \/ Finalize

Spec == Init /\ [][Next]_vars

\* Every remote call returns and the process is scheduled: a run that can
\* take a step eventually takes one
InitLive ==
  /\ InitOf(MaxFailures)
  /\ input.config.CreateClients
  /\ input.config.BatchSize \in {0, 1}
  /\ input.remote.clients = {}
  /\ \A k \in 1..Len(input.entries) :
       /\ input.entries[k].TaskID \in {"t1", "t4"}
       /\ input.entries[k].ProjectID = "src"

SpecLive == InitLive /\ [][Next]_vars /\ WF_vars(Next)

\* ------------------------------------------ a dry run next to a live run
\* After a live run in which no remote call failed, the caller runs a fresh
\* MigrationService in dry-run mode on the same entries, against the target
\* workspace as it was before the live run.
DryRunTwin ==
  /\ pc = "returned"
  /\ ret = "nil"
  /\ prev = NoPrev
  /\ ~input.config.DryRun
  /\ hist.failures = 0
  /\ prev' = [mode |-> "dry_twin", stats |-> stats,
              clientKeys |-> DOMAIN cache.clients,
              projectKeys |-> DOMAIN cache.projects,
              taskKeys |-> DOMAIN cache.tasks]
  /\ input' = [input EXCEPT !.config.DryRun = TRUE]
  /\ config' = input'.config
  /\ pc' = "start"
  /\ stats' = EmptyStats
  /\ cache' = EmptyCache
  /\ ws' = NoWorkspaces
  /\ timeEntries' = <<>>
  /\ loop' = NoLoop
  /\ ret' = "none"
  /\ remote' = input.remote
  /\ hist' = EmptyHist
  /\ UNCHANGED <<whVars, dispVars>>

InitTwoRuns ==
  /\ InitOf(0)
  /\ ~input.config.DryRun

NextTwoRuns ==
  \/ NewMigrationService
  \/ Initialize
  \/ Fetch
  \/ BeginBatch
  \/ ProcessEntry
  \/ EndBatch
  \/ Finalize
  \/ DryRunTwin

SpecTwoRuns == InitTwoRuns /\ [][NextTwoRuns]_vars

\* ------------------------------------- the same run with another batch size
BatchSizes == {1, 2}

\* what the remote answered to each entry of the run so far, and the calls
\* each entry issued
Script == IF prev.mode = "none" THEN <<>> ELSE prev.script
CallLog == IF prev.mode = "none" THEN <<>> ELSE prev.calls

\* what the remote answers to an entry of these runs: every call succeeds,
\* CreateProject fails, or CreateTimeEntryForUser fails
TwinOutcomes ==
  {o \in Outcomes : o.src /\ o.client /\ o.listProj /\ o.listTask /\ o.task}

\* the entries of these runs: tasks of two projects, an unparsable task name
\* and an entry without time interval
TwinKinds ==
  {k \in EntryKinds : k.ProjectID = "src" /\ k.TaskID \in {"t1", "t3", "t4"}}

\* ProcessEntry of the first run, keeping what the remote answered, and of
\* the second run, where the remote answers each entry as it did before
ProcessEntryScripted ==
  \/ /\ prev.mode \in {"none", "recording"}
     /\ \E o \in TwinOutcomes :
          /\ ProcessEntryWith(o)
          /\ prev' = [mode |-> "recording", script |-> Append(Script, o),
                      calls |-> Append(CallLog, hist'.calls)]
  \/ /\ prev.mode = "batch_twin"
     /\ Len(hist.results) < Len(prev.script)
     /\ ProcessEntryWith(prev.script[Len(hist.results) + 1])
     /\ prev' = [prev EXCEPT !.calls2 = Append(@, hist'.calls)]

\* a fresh MigrationService runs on the same entries, config and target with
\* another positive batch size
BatchTwin ==
  /\ prev.mode \in {"none", "recording"}
  /\ (pc = "returned" /\ ret = "nil") \/ pc = "crashed"
  /\ \E size \in BatchSizes \ {input.config.BatchSize} :
       input' = [input EXCEPT !.config.BatchSize = size]
  /\ prev' = [mode |-> "batch_twin", script |-> Script, calls |-> CallLog,
              calls2 |-> <<>>, stats |-> stats, cache |-> cache,
              remote |-> remote, pc |-> pc]
  /\ config' = input'.config
  /\ pc' = "start"
  /\ stats' = EmptyStats
  /\ cache' = EmptyCache
  /\ ws' = NoWorkspaces
  /\ timeEntries' = <<>>
  /\ loop' = NoLoop
  /\ ret' = "none"
  /\ remote' = input.remote
  /\ hist' = EmptyHist
  /\ UNCHANGED <<whVars, dispVars>>

InitBatchTwin ==
  /\ InitOf(MaxFailures)
  /\ input.config.BatchSize \in BatchSizes
  /\ input.config.CreateClients
  /\ \A k \in 1..Len(input.entries) : input.entries[k] \in TwinKinds

NextBatchTwin ==
  \/ NewMigrationService
  \/ Initialize
  \/ Fetch
  \/ BeginBatch
  \/ ProcessEntryScripted
  \/ EndBatch
  \/ Finalize
  \/ BatchTwin

SpecBatchTwin == InitBatchTwin /\ [][NextBatchTwin]_vars

\* ------------------------------------------- a second run on the same target
\* what the remote answers to an entry of these runs: every call succeeds,
\* the project listing fails, or CreateProject fails
RerunOutcomes ==
  {o \in Outcomes :
     o.src /\ o.client /\ o.listTask /\ o.task /\ o.timeEntry}

ProcessEntryRerun ==
  /\ \E o \in RerunOutcomes : ProcessEntryWith(o)
  /\ UNCHANGED prev

\* a create call of the run has returned an error
CreateFailed ==
  \/ \E n \in DOMAIN hist.cClient : hist.cClient[n] > Count(hist.okClient, n)
  \/ \E n \in DOMAIN hist.cProject : hist.cProject[n] > Count(hist.okProject, n)
  \/ \E n \in DOMAIN hist.cTask : hist.cTask[n] > Count(hist.okTask, n)
  \/ hist.cTimeEntry > stats.TimeEntriesCreated

\* after a live run has returned, a fresh MigrationService runs with the
\* same config on the same source and on the target as the first run left it
Rerun ==
  /\ pc = "returned"
  /\ ret = "nil"
  /\ prev = NoPrev
  /\ ~input.config.DryRun
  /\ prev' = [mode |-> "rerun", failures |-> hist.failures,
              createFailed |-> CreateFailed, stats |-> stats,
              remote |-> remote]
  /\ input' = [input EXCEPT !.remote = remote]
  /\ config' = input.config
  /\ pc' = "start"
  /\ stats' = EmptyStats
  /\ cache' = EmptyCache
  /\ ws' = NoWorkspaces
  /\ timeEntries' = <<>>
  /\ loop' = NoLoop
  /\ ret' = "none"
  /\ remote' = remote
  /\ hist' = EmptyHist
  /\ UNCHANGED <<whVars, dispVars>>

InitRerun ==
  /\ InitOf(MaxFailures)
  /\ ~input.config.DryRun
  /\ \A k \in 1..Len(input.entries) : input.entries[k] \in TwinKinds

NextRerun ==
  \/ NewMigrationService
  \/ Initialize
  \/ Fetch
  \/ BeginBatch
  \/ ProcessEntryRerun
  \/ EndBatch
  \/ Finalize
  \/ Rerun

SpecRerun == InitRerun /\ [][NextRerun]_vars

\* ------------------------------------------------ WorkspaceWebhookService
MaxCreates == 1        \* calls of Create in one session

\* the keys of eventToObject
Events ==
  {"NEW_TIMER_STARTED", "TIMER_STOPPED", "NEW_CLIENT", "NEW_PROJECT", "NEW_TAG"}

Range(f) == {f[x] : x \in DOMAIN f}

\* Create storing each webhook into s.webhooks as soon as it is registered
CreateRegistry_Partial(old, made, failed) ==
  made @@ old

\* s.webhooks after Create: the new map when every registration succeeded,
\* untouched when one failed
CreateRegistry(old, made, failed) ==
  IF failed THEN old ELSE made

\* s.workspace.ID and s.url, fixed by NewWorkspaceWebhookService
ServiceWorkspaceID == "workspace"
ServiceURL == "url"
WorkspaceIDTrigger == "WORKSPACE_ID"

\* the request with the event of the map's last key whatever the key is
WebhookRequest_FixedEvent(event) ==
  [Event |-> "NEW_TAG", TriggerSource |-> <<WorkspaceIDTrigger>>,
   TriggerSourceType |-> WorkspaceIDTrigger, TargetURL |-> ServiceURL]

\* the WebhookRequest literal of Create (Name, a random-suffixed name from
\* makeWebhookName, is left out: no code reads it back)
WebhookRequest(event) ==
  [Event |-> event, TriggerSource |-> <<WorkspaceIDTrigger>>,
   TriggerSourceType |-> WorkspaceIDTrigger, TargetURL |-> ServiceURL]

\* the orders in which `range eventToObject` may yield the keys
Orders ==
  {o \in [1..Cardinality(Events) -> Events] :
     \A i, j \in DOMAIN o : i # j => o[i] # o[j]}

\* Create going on to the next event after a failed CreateWebhook
CreateCalls_ContinueAfterFailure(order, failAt) ==
  [k \in 1..Len(order) |->
     [workspaceID |-> ServiceWorkspaceID, request |-> WebhookRequest(order[k])]]

\* the CreateWebhook calls of one Create, in order, when the failAt-th call
\* returns an error (0: none does): the loop returns at the failed call
CreateCalls(order, failAt) ==
  [k \in 1..(IF failAt = 0 THEN Len(order) ELSE failAt) |->
     [workspaceID |-> ServiceWorkspaceID, request |-> WebhookRequest(order[k])]]

\* Create.  The events are visited in the map's (arbitrary) order; every
\* call but the failed one registers a webhook remotely and puts it into
\* the local map under the event of its request.
Create ==
  /\ nCreate < MaxCreates
  /\ \E order \in Orders :
       \E failAt \in 0..Len(order) :
         LET calls == CreateCalls(order, failAt)
             registered ==
               {calls[k].request.Event : k \in DOMAIN calls \ {failAt}}
             made == [e \in registered |-> <<nCreate + 1, e>>]
         IN /\ remoteHooks' = remoteHooks \cup Range(made)
            /\ webhooks' = CreateRegistry(webhooks, made, failAt # 0)
            /\ whLast' = [op |-> "create", err |-> failAt # 0,
                          calls |-> calls, failed |-> failAt, made |-> made]
  /\ nCreate' = nCreate + 1
  /\ UNCHANGED <<migVars, dispVars>>

\* Delete returning at the first DeleteWebhook error
DeleteCalls_StopAtFirst(registry, failing) ==
  IF failing = {}
    THEN Range(registry)
    ELSE (Range(registry) \ failing) \cup {CHOOSE h \in failing : TRUE}

\* the webhooks of the registry for which Delete calls DeleteWebhook, when
\* the calls for `failing` return an error: all of them
DeleteCalls(registry, failing) ==
  Range(registry)

\* what Delete returns: nil, or ErrDeleteWebhook joined with every error
DeleteResult(errs) ==
  IF errs = {} THEN [isNil |-> TRUE, joined |-> {}]
               ELSE [isNil |-> FALSE, joined |-> errs]

\* Delete.  `failing` are the webhooks whose DeleteWebhook call returns an
\* error when it is issued.
Delete ==
  /\ \E failing \in SUBSET Range(webhooks) :
       LET called == DeleteCalls(webhooks, failing)
           errs == called \cap failing
       IN /\ remoteHooks' = remoteHooks \ (called \ failing)
          /\ whLast' = [op |-> "delete", called |-> called, failing |-> failing,
                        ret |-> DeleteResult(errs)]
  /\ UNCHANGED <<webhooks, nCreate>>
  /\ UNCHANGED <<migVars, dispVars>>

InitWebhook ==
  /\ InitOf(0)
  /\ input = [config |-> [DryRun |-> FALSE, CreateClients |-> FALSE,
                          BatchSize |-> 0, DefaultClientName |-> <<>>,
                          ClientMapping |-> [isNil |-> TRUE, map |-> <<>>]],
              entries |-> <<>>,
              remote |-> [clients |-> {}, projects |-> {}, tasks |-> {},
                          timeEntries |-> <<>>, nextId |-> 1],
              budget |-> 0]

NextWebhook ==
  \/ Create
  \/ Delete

SpecWebhook == InitWebhook /\ [][NextWebhook]_vars

\* ------------------------------------------------------- ProcessWebhook
\* An inbound delivery: the Clockify-Webhook-Event-Type header ("" when it
\* is absent), the Clockify-Signature header ("" when absent) and the body:
\* one that cannot be read, one that is not JSON, or a JSON document of the
\* event's shape.
Requests ==
  [eventType : {"", "NEW_CLIENT", "TIMER_STOPPED", "SOMETHING_ELSE"},
   signature : {"", "s1", "s2"},
   body : {"unreadable", "malformed", "valid"}]

\* a verifier that accepts one signature value only
verifyClockifySignature_OnlyS1(signature, req) == signature = "s1"

\* verifyClockifySignature: the stub accepts every signature
verifyClockifySignature(signature, req) == TRUE

\* the checks with the signature looked at before the event type
Gate_SignatureFirst(tbl, req) ==
  IF req.signature = "" THEN "missing_signature"
  ELSE IF ~verifyClockifySignature(req.signature, req) THEN "invalid_signature"
  ELSE IF req.eventType = "" THEN "missing_event_type"
  ELSE IF req.eventType \notin DOMAIN tbl THEN "unsupported_event"
  ELSE IF req.body = "unreadable" THEN "read_body"
  ELSE "nil"

\* ProcessWebhook up to io.ReadAll: the error it returns, "nil" when it goes
\* on to decode
Gate(tbl, req) ==
  IF req.eventType = "" THEN "missing_event_type"
  ELSE IF req.eventType \notin DOMAIN tbl THEN "unsupported_event"
  ELSE IF req.signature = "" THEN "missing_signature"
  ELSE IF ~verifyClockifySignature(req.signature, req) THEN "invalid_signature"
  ELSE IF req.body = "unreadable" THEN "read_body"
  ELSE "nil"

\* cloneObject handing out the template itself
cloneObject_ReturnsTemplate(h, template) ==
  [heap |-> h, addr |-> template]

\* cloneObject: a new zero object of the template's type, nil for any other
\* type
cloneObject(h, template) ==
  IF h[template].type \in {"TimeEntry", "Client", "Project", "Tag"}
    THEN [heap |-> Append(h, [type |-> h[template].type, val |-> "zero"]),
          addr |-> Len(h) + 1]
    ELSE [heap |-> h, addr |-> NilObject]

\* json.Unmarshal(body, obj): a syntax error (the empty input of a drained
\* body included) leaves obj untouched, a document is stored into obj; the
\* document of delivery d is named <<"doc", d>>
Unmarshal(h, d, req, obj) ==
  IF req.body \in {"malformed", "drained"}
    THEN [heap |-> h, err |-> "unmarshal"]
    ELSE [heap |-> [h EXCEPT ![obj].val = <<"doc", d>>], err |-> "nil"]

\* ProcessWebhook reads the headers, looks the event up in eventToObject,
\* checks the signature and reads the body
Receive(d) ==
  /\ deliveries[d].pc = "idle"
  /\ \A c \in 1..(d - 1) : deliveries[c].pc # "idle"
  /\ \E req \in Requests :
       LET err == Gate(table, req)
           event == IF err = "missing_event_type" THEN "" ELSE req.eventType
       IN deliveries' = [deliveries EXCEPT ![d] =
            IF err # "nil"
              THEN [@ EXCEPT !.pc = "done", !.req = req, !.event = event,
                             !.err = err]
              ELSE [@ EXCEPT !.pc = "clone", !.req = req, !.event = event,
                             !.template = table[req.eventType]]]
  /\ UNCHANGED <<table, heap, probe, proc>>
  /\ UNCHANGED <<migVars, whVars>>

\* obj := cloneObject(objTemplate)
Clone(d) ==
  /\ deliveries[d].pc = "clone"
  /\ LET c == cloneObject(heap, deliveries[d].template)
     IN /\ heap' = c.heap
        /\ deliveries' = [deliveries EXCEPT ![d].pc = "decode",
                                            ![d].obj = c.addr]
  /\ UNCHANGED <<table, probe, proc>>
  /\ UNCHANGED <<migVars, whVars>>

\* json.Unmarshal(body, obj) and the return
Decode(d) ==
  /\ deliveries[d].pc = "decode"
  /\ LET u == Unmarshal(heap, d, deliveries[d].req, deliveries[d].obj)
     IN /\ heap' = u.heap
        /\ deliveries' = [deliveries EXCEPT
             ![d].pc = "done",
             ![d].err = u.err,
             ![d].payload = IF u.err = "nil" THEN deliveries[d].obj
                                             ELSE NilObject]
  /\ UNCHANGED <<table, probe, proc>>
  /\ UNCHANGED <<migVars, whVars>>

\* ProcessWebhook as one call running alone on heap h
ProcessWebhook(h, tbl, d, req) ==
  LET err == Gate(tbl, req)
      event == IF err = "missing_event_type" THEN "" ELSE req.eventType
  IN IF err # "nil"
       THEN [event |-> event, payload |-> NilObject, err |-> err, heap |-> h]
       ELSE LET c == cloneObject(h, tbl[req.eventType])
                u == Unmarshal(c.heap, d, req, c.addr)
            IN [event |-> event,
                payload |-> IF u.err = "nil" THEN c.addr ELSE NilObject,
                err |-> u.err, heap |-> u.heap]

NextDispatch ==
  \E d \in 1..MaxDeliveries :
    \/ Receive(d)
    \/ Clone(d)
    \/ Decode(d)

SpecDispatch == InitWebhook /\ [][NextDispatch]_vars

\* ------------------------------------------ ParseTaskName on its own
StrMapped == <<"M">>

\* what may stand before the separator in a task name
NamePrefixes ==
  { <<>>, <<" ">>, StrA, <<" ">> \o StrA \o <<" ">>, StrA \o <<"\n">> \o StrB,
    StrA \o StrSlashTask \o <<"1">>, StrA \o <<"/">> \o StrB, StrB }

NameSeparators ==
  { StrSlashTask, <<"T","A","S","K">>, <<"/","t","a","s","k">>,
    StrSlashTask \o <<" ">>, <<>> }

NameSuffixes ==
  { <<>>, <<"1">>, <<"4","2">>, <<"0","0","7">>, <<"4","x">>, <<"x","4">>,
    <<"1"," ">>, <<"1","\n">> }

\* the task names handed to ParseTaskName
TaskNames ==
  { p \o m \o x : p \in NamePrefixes, m \in NameSeparators, x \in NameSuffixes }

\* the configs of a MigrationService built by NewMigrationService, as far as
\* ParseTaskName reads them: ClientMapping nil, empty, or with one entry
ParseConfigs ==
  [CreateClients : BOOLEAN,
   DefaultClientName : {StrDefaultClient},
   ClientMapping : { [isNil |-> TRUE, map |-> <<>>],
                     [isNil |-> FALSE, map |-> <<>>],
                     [isNil |-> FALSE, map |-> (StrA :> StrMapped)] }]

\* a call of ParseTaskName
Parse ==
  /\ probe.fn = "none"
  /\ \E cfg \in ParseConfigs, name \in TaskNames :
       probe' = [fn |-> "ParseTaskName", cfg |-> cfg, name |-> name,
                 out |-> ParseTaskName(cfg, name)]
  /\ UNCHANGED <<table, heap, deliveries, proc>>
  /\ UNCHANGED <<migVars, whVars>>

NextParse == Parse

SpecParse == InitWebhook /\ [][NextParse]_vars

\* ---------------------------------------------------- makeWebhookName
\* A string is its sequence of bytes.  The byte <<r, i>> is the i-th byte of
\* the UTF-8 encoding of the rune r.
MaxHead == 21          \* longest run of the first rune of a workspace name
MaxTail == 2           \* longest run of the second rune

cutLength == 20
maxWebhookNameLength == 30
randomPartLength == 6
suffix == <<"-", "w", "h">>

RuneError == "U+FFFD"

\* the runes of the workspace names: letters, a space, a tab, two control
\* characters, and runes of two, three and four bytes, one of which ("U+023A")
\* has a lower-case form ("U+2C65") with a longer encoding
NameRunes ==
  {"a", "A", " ", "\t", "U+0001", "U+007F", "U+00E9", "U+023A", "U+4E16",
   "U+1F600"}

\* number of bytes of the UTF-8 encoding of a rune
RuneWidth(r) ==
  CASE r \in {"U+00E9", "U+023A"} -> 2
    [] r \in {"U+4E16", "U+2C65", RuneError} -> 3
    [] r = "U+1F600" -> 4
    [] OTHER -> 1

\* string(runes)
RECURSIVE EncodeRunes(_)
EncodeRunes(rs) ==
  IF rs = <<>> THEN <<>>
  ELSE [i \in 1..RuneWidth(Head(rs)) |-> <<Head(rs), i>>] \o EncodeRunes(Tail(rs))

\* `for _, r := range s`: the runes of a byte string; a byte that does not
\* start a complete encoding decodes to RuneError and is one byte wide
RECURSIVE DecodeRunes(_)
DecodeRunes(b) ==
  IF b = <<>> THEN <<>>
  ELSE LET r == b[1][1]
           w == RuneWidth(r)
           whole == /\ b[1][2] = 1
                    /\ Len(b) >= w
                    /\ \A i \in 1..w : b[i] = <<r, i>>
       IN IF whole THEN <<r>> \o DecodeRunes(SubSeq(b, w + 1, Len(b)))
                   ELSE <<RuneError>> \o DecodeRunes(Tail(b))

\* step 2 of makeWebhookName: the runes that are kept
Kept(r) == r \notin {"U+0001", "U+007F", " ", "\t", "\n", "\r"}

\* unicode.ToLower
ToLower(r) ==
  CASE r = "A" -> "a"
    [] r = "U+023A" -> "U+2C65"
    [] OTHER -> r

\* kebabify: spaces to hyphens, then lower case
kebabify(rs) ==
  [i \in 1..Len(rs) |-> ToLower(IF rs[i] = " " THEN "-" ELSE rs[i])]

\* makeWebhookName without step 6
Truncate_Off(name) == name

\* step 6 of makeWebhookName: name[:maxWebhookNameLength] when longer
Truncate(name) ==
  IF Len(name) > maxWebhookNameLength
    THEN SubSeq(name, 1, maxWebhookNameLength) ELSE name

\* steps 1 to 5 of makeWebhookName, randomPart being the six symbols drawn
FullName(workspaceName, randomPart) ==
  LET cut == IF Len(workspaceName) > cutLength
               THEN SubSeq(workspaceName, 1, cutLength) ELSE workspaceName
      stripped == SelectSeq(DecodeRunes(cut), Kept)
      kebabified == kebabify(stripped)
  IN EncodeRunes(kebabified \o <<"-">> \o randomPart \o suffix)

makeWebhookName(workspaceName, randomPart) ==
  Truncate(FullName(workspaceName, randomPart))

\* the six symbols seededRandInt may draw from allowedRunes (samples)
RandomParts ==
  { [i \in 1..randomPartLength |-> c] : c \in {"0", "z", "Z"} }

\* the workspace names: a run of one rune followed by a run of another
WorkspaceNames ==
  { EncodeRunes([i \in 1..(n + k) |-> IF i <= n THEN r ELSE q]) :
      r \in NameRunes, q \in NameRunes, n \in 0..MaxHead, k \in 0..MaxTail }

\* a call of makeWebhookName
MakeName ==
  /\ probe.fn = "none"
  /\ \E name \in WorkspaceNames, randomPart \in RandomParts :
       probe' = [fn |-> "makeWebhookName", name |-> name,
                 full |-> FullName(name, randomPart),
                 out |-> makeWebhookName(name, randomPart)]
  /\ UNCHANGED <<table, heap, deliveries, proc>>
  /\ UNCHANGED <<migVars, whVars>>

NextName == MakeName

SpecName == InitWebhook /\ [][NextName]_vars

\* ------------------------------------------------- the server process
MaxInflight == 1       \* deliveries being handled at one time
MaxSignals == 2        \* SIGINT/SIGTERM sent to the process

\* the handler of makeWebhookHandler: it reads the whole body (400 when that
\* fails), writes 200, and calls ProcessWebhook on the request, whose body
\* is then at its end
makeWebhookHandler(req) ==
  IF req.body = "unreadable"
    THEN [called |-> FALSE, req |-> req, status |-> 400]
    ELSE LET r == ProcessWebhook(Templates, eventToObject, 1,
                                 [req EXCEPT !.body = "drained"])
         IN [called |-> TRUE, req |-> req, status |-> 200,
             event |-> r.event, err |-> r.err,
             payload |-> IF r.payload = NilObject THEN NilObject
                         ELSE r.heap[r.payload]]

Alive == proc.main \notin {"exited", "killed"}

\* main up to NewWorkspaceWebhookService: flags, config.Load and
\* FindWorkspaceByName; each failure returns
MainSetup ==
  /\ proc.main = "start"
  /\ \E ok \in BOOLEAN :
       proc' = [proc EXCEPT !.main = IF ok THEN "create" ELSE "exited"]
  /\ UNCHANGED <<table, heap, deliveries, probe>>
  /\ UNCHANGED <<migVars, whVars>>

\* main calls webhookService.Create()
MainCreateCall ==
  /\ proc.main = "create"
  /\ proc' = [proc EXCEPT !.main = "inCreate"]
  /\ UNCHANGED <<table, heap, deliveries, probe>>
  /\ UNCHANGED <<migVars, whVars>>

\* Create returns: on an error main returns, otherwise the Delete call is
\* deferred
MainCreateReturn ==
  /\ proc.main = "inCreate"
  /\ \E ok \in BOOLEAN :
       proc' = IF ok
                 THEN [proc EXCEPT !.main = "notify", !.created = TRUE,
                                   !.deferred = TRUE]
                 ELSE [proc EXCEPT !.main = "exited"]
  /\ UNCHANGED <<table, heap, deliveries, probe>>
  /\ UNCHANGED <<migVars, whVars>>

\* signal.Notify(signals, os.Interrupt, syscall.SIGTERM)
MainNotify ==
  /\ proc.main = "notify"
  /\ proc' = [proc EXCEPT !.main = "go", !.notified = TRUE]
  /\ UNCHANGED <<table, heap, deliveries, probe>>
  /\ UNCHANGED <<migVars, whVars>>

\* go func() { err = server.ListenAndServe() ... }()
MainGo ==
  /\ proc.main = "go"
  /\ proc' = [proc EXCEPT !.main = "wait", !.listen = "starting"]
  /\ UNCHANGED <<table, heap, deliveries, probe>>
  /\ UNCHANGED <<migVars, whVars>>

\* ListenAndServe in its goroutine: ErrServerClosed after Shutdown, else the
\* listener is bound or the bind fails
ServerListen ==
  /\ Alive
  /\ proc.listen = "starting"
  /\ \E ok \in BOOLEAN :
       proc' = [proc EXCEPT !.listen =
                  IF proc.inShutdown THEN "closed"
                  ELSE IF ok THEN "on" ELSE "failed"]
  /\ UNCHANGED <<table, heap, deliveries, probe>>
  /\ UNCHANGED <<migVars, whVars>>

\* the server accepts a delivery and starts its handler
Accept ==
  /\ Alive
  /\ proc.listen = "on"
  /\ proc.inflight < MaxInflight
  /\ proc' = [proc EXCEPT !.inflight = @ + 1]
  /\ UNCHANGED <<table, heap, deliveries, probe>>
  /\ UNCHANGED <<migVars, whVars>>

\* a handler runs to its end
Handle ==
  /\ Alive
  /\ proc.inflight > 0
  /\ \E req \in Requests :
       proc' = [proc EXCEPT !.inflight = @ - 1,
                            !.last = makeWebhookHandler(req)]
  /\ UNCHANGED <<table, heap, deliveries, probe>>
  /\ UNCHANGED <<migVars, whVars>>

\* SIGINT or SIGTERM is sent to the process: queued on the channel once
\* signal.Notify has run (a full channel drops it), otherwise the default
\* action ends the process at once, deferred calls not run
Signal ==
  /\ Alive
  /\ proc.signals < MaxSignals
  /\ proc' = IF proc.notified
               THEN [proc EXCEPT !.signals = @ + 1, !.pending = TRUE]
               ELSE [proc EXCEPT !.signals = @ + 1, !.main = "killed"]
  /\ UNCHANGED <<table, heap, deliveries, probe>>
  /\ UNCHANGED <<migVars, whVars>>

\* <-signals
MainReceiveSignal ==
  /\ proc.main = "wait"
  /\ proc.pending
  /\ proc' = [proc EXCEPT !.main = "shutdown", !.pending = FALSE]
  /\ UNCHANGED <<table, heap, deliveries, probe>>
  /\ UNCHANGED <<migVars, whVars>>

\* server.Shutdown(context.Background()) is called: the server is marked as
\* shutting down and its listener is closed
MainShutdownCall ==
  /\ proc.main = "shutdown"
  /\ proc' = [proc EXCEPT !.main = "draining", !.inShutdown = TRUE,
                          !.listen = IF @ = "on" THEN "closed" ELSE @]
  /\ UNCHANGED <<table, heap, deliveries, probe>>
  /\ UNCHANGED <<migVars, whVars>>

\* Shutdown returns once no handler is running (the context never expires);
\* main reads err, which the ListenAndServe goroutine writes as well, logs
\* one of two messages and returns either way, so the deferred call runs
MainShutdownReturn ==
  /\ proc.main = "draining"
  /\ proc.inflight = 0
  /\ \E errNil \in BOOLEAN :
       proc' = [proc EXCEPT
                  !.main = "deferred",
                  !.log = IF errNil THEN "Server shutdown gracefully"
                                    ELSE "failed_to_shutdown_server"]
  /\ UNCHANGED <<table, heap, deliveries, probe>>
  /\ UNCHANGED <<migVars, whVars>>

\* the deferred function calls webhookService.Delete()
MainDeleteCall ==
  /\ proc.main = "deferred"
  /\ proc.deferred
  /\ proc' = [proc EXCEPT
                !.main = "inDelete", !.deletes = @ + 1,
                !.deleteSaw = [accepting |-> proc.listen = "on",
                               inflight |-> proc.inflight]]
  /\ UNCHANGED <<table, heap, deliveries, probe>>
  /\ UNCHANGED <<migVars, whVars>>

\* Delete returns (nil or an error, logged) and the process exits
MainDeleteReturn ==
  /\ proc.main = "inDelete"
  /\ proc' = [proc EXCEPT !.main = "exited"]
  /\ UNCHANGED <<table, heap, deliveries, probe>>
  /\ UNCHANGED <<migVars, whVars>>

NextServer ==
  \/ MainSetup
  \/ MainCreateCall
  \/ MainCreateReturn
  \/ MainNotify
  \/ MainGo
  \/ ServerListen
  \/ Accept
  \/ Handle
  \/ Signal
  \/ MainReceiveSignal
  \/ MainShutdownCall
  \/ MainShutdownReturn
  \/ MainDeleteCall
  \/ MainDeleteReturn

SpecServer == InitWebhook /\ [][NextServer]_vars

\* ================================================================ claims
ResultIDs == {hist.results[k].entry : k \in 1..Len(hist.results)}

FailedIDs ==
  {hist.results[k].entry : k \in {j \in 1..Len(hist.results) :
                                    hist.results[j].err # "nil"}}

ErrorIDs == {stats.Errors[k].entry : k \in 1..Len(stats.Errors)}

\* the run is over, and initialization and the fetch had succeeded
OverAfterFetch ==
  /\ pc \in {"returned", "crashed"}
  /\ ret \notin {"init_error", "fetch_error"}

NoCreateCalls ==
  /\ hist.cClient = <<>>
  /\ hist.cProject = <<>>
  /\ hist.cTask = <<>>
  /\ hist.cTimeEntry = 0

\* the task name of the entry does not parse
Unparsable(e) ==
  /\ e.TaskID \in DOMAIN SourceTasks
  /\ ~ParseTaskName(config, SourceTasks[e.TaskID]).ok

\* C1 (as claimed): every entry whose processing failed at some step is
\* recorded in stats.Errors, and when the run is over every fetched entry
\* that follows a failed one was attempted.
C1_PartialFailureIsolation ==
  /\ FailedIDs \subseteq ErrorIDs
  /\ OverAfterFetch =>
       \A k \in 1..Len(timeEntries) :
         (\E j \in 1..(k - 1) : timeEntries[j].ID \in FailedIDs)
           => timeEntries[k].ID \in ResultIDs

\* C2: when ExecuteMigration returns nil, TimeEntriesProcessed + len(Errors)
\* is the number of fetched entries, Errors holds exactly one element per
\* failed entry in processing order, and every entry with an unparsable task
\* name is among them (so one unparsable name among N otherwise good entries
\* gives N-1 processed and one error).
C2_StatsAccounting ==
  ret = "nil" =>
    /\ stats.TimeEntriesProcessed + Len(stats.Errors) = Len(timeEntries)
    /\ stats.Errors = SelectSeq(hist.results, LAMBDA r : r.err # "nil")
    /\ Len(hist.results) = Len(timeEntries)
    /\ \A k \in 1..Len(timeEntries) :
         /\ hist.results[k].entry = timeEntries[k].ID
         /\ Unparsable(timeEntries[k]) => timeEntries[k].ID \in ErrorIDs

C2_Witness ==
  /\ ret = "nil"
  /\ Len(timeEntries) = 2
  /\ stats.TimeEntriesProcessed = 1
  /\ Len(stats.Errors) = 1
  /\ stats.Errors[1].err = "parse"

\* C3 (as claimed): at most one create call per client name, project name
\* and (projectID, task name), and at most one listing per name.
C3_AtMostOneAttempt ==
  /\ \A n \in DOMAIN hist.cClient : hist.cClient[n] <= 1
  /\ \A n \in DOMAIN hist.cProject : hist.cProject[n] <= 1
  /\ \A n \in DOMAIN hist.cTask : hist.cTask[n] <= 1
  /\ \A n \in DOMAIN hist.lProject : hist.lProject[n] <= 1
  /\ \A n \in DOMAIN hist.lTask : hist.lTask[n] <= 1

\* C3 (amended): at most one successful create per client name, project
\* name and (projectID, task name); a name is listed or created again only
\* after a resolution of that name returned an error.
C3_AtMostOneSuccess ==
  /\ \A n \in DOMAIN hist.cClient :
       /\ Count(hist.okClient, n) <= 1
       /\ hist.cClient[n] <= 1 + Count(hist.fClient, n)
  /\ \A n \in DOMAIN hist.lProject :
       /\ Count(hist.okProject, n) <= 1
       /\ Count(hist.cProject, n) <= hist.lProject[n]
       /\ hist.lProject[n] <= 1 + Count(hist.fProject, n)
  /\ \A n \in DOMAIN hist.lTask :
       /\ Count(hist.okTask, n) <= 1
       /\ Count(hist.cTask, n) <= hist.lTask[n]
       /\ hist.lTask[n] <= 1 + Count(hist.fTask, n)

C3_Witness ==
  \E n \in DOMAIN hist.cClient :
    /\ hist.cClient[n] = 2
    /\ Count(hist.okClient, n) = 1

\* C4 (as claimed): a project name is never created twice, and resolving a
\* name that was resolved before is a cache hit: no remote call, and the
\* entity of the first resolution.
C4_SecondIsCacheHit ==
  /\ \A n \in DOMAIN hist.cProject : hist.cProject[n] <= 1
  /\ hist.lastProj.again =>
       /\ hist.lastProj.calls = <<>>
       /\ hist.lastProj.ok
       /\ hist.lastProj.name \in DOMAIN hist.resolvedProj
       /\ hist.lastProj.id = hist.resolvedProj[hist.lastProj.name]

\* C4 (amended): once a resolution of a project name has returned an entity,
\* every later resolution of that name is a cache hit: it makes no remote
\* call and returns that entity, and the cached entity never changes.
C4_SecondAfterSuccessIsCacheHit ==
  /\ hist.lastProj.prior =>
       /\ hist.lastProj.calls = <<>>
       /\ hist.lastProj.ok
       /\ hist.lastProj.id = hist.resolvedProj[hist.lastProj.name]
  /\ \A n \in DOMAIN hist.okProject : hist.okProject[n] <= 1
  /\ \A n \in DOMAIN cache.projects :
       /\ n \in DOMAIN hist.resolvedProj
       /\ cache.projects[n].ID = hist.resolvedProj[n]

C4_Witness ==
  /\ hist.lastProj.prior
  /\ hist.lastProj.name \in DOMAIN hist.okProject

\* C5: in a dry run no create call is issued and the target workspace is
\* left as it was.
C5_DryRunNoWrites ==
  config.DryRun =>
    /\ NoCreateCalls
    /\ remote = input.remote
    /\ \A k \in 1..Len(hist.calls) :
         hist.calls[k] \notin {"CreateClient", "CreateProject", "CreateTask",
                               "CreateTimeEntryForUser"}

C5_Witness ==
  /\ config.DryRun
  /\ config.CreateClients
  /\ input.remote.clients = {}
  /\ ret = "nil"
  /\ stats.TimeEntriesProcessed = 2

\* C6 (as claimed): a dry run ends with the created counters and the cache
\* keys of the live run on the same config, entries and target workspace.
C6_DryRunMirrorsLive ==
  (prev.mode = "dry_twin" /\ ret = "nil") =>
    /\ stats.ClientsCreated = prev.stats.ClientsCreated
    /\ stats.ProjectsCreated = prev.stats.ProjectsCreated
    /\ stats.TasksCreated = prev.stats.TasksCreated
    /\ stats.TimeEntriesCreated = prev.stats.TimeEntriesCreated
    /\ DOMAIN cache.clients = prev.clientKeys
    /\ DOMAIN cache.projects = prev.projectKeys
    /\ DOMAIN cache.tasks = prev.taskKeys

C8_OnlyInitAndFetchFatal ==
  OverAfterFetch => (ret = "nil" /\ stats.EndTimeSet)

\* C9: after a Create in which every registration succeeded the registry
\* holds one webhook, registered remotely, for each of the five events;
\* after a Create that failed the registry holds none of the webhooks that
\* call registered.
C9_CreateAllOrNothing ==
  whLast.op = "create" =>
    IF whLast.err
      THEN Range(webhooks) \cap Range(whLast.made) = {}
      ELSE /\ DOMAIN webhooks = Events
           /\ Cardinality(Range(webhooks)) = Cardinality(Events)
           /\ Range(webhooks) = Range(whLast.made)
           /\ Range(webhooks) \subseteq remoteHooks

C9_Witness ==
  /\ whLast.op = "create"
  /\ whLast.err
  /\ Cardinality(Range(whLast.made)) = 3

\* C10: Delete calls DeleteWebhook for every webhook of the registry, returns
\* nil exactly when no call failed, and otherwise returns an error joining
\* the error of every failed call.
C10_DeleteBestEffort ==
  whLast.op = "delete" =>
    /\ whLast.called = Range(webhooks)
    /\ whLast.ret.isNil <=> whLast.failing = {}
    /\ whLast.ret.joined = whLast.failing

C10_Witness ==
  /\ whLast.op = "delete"
  /\ Cardinality(whLast.failing) = 2
  /\ Cardinality(whLast.called) = 5

\* C11 (as claimed): a Delete calls DeleteWebhook for every webhook that the
\* latest Create registered remotely (so none of them is left behind without
\* a delete attempt, also when that Create failed part-way), and the error it
\* returns joins the errors of the failed delete calls and nothing else.
C11_DeleteAfterPartialCreate ==
  whLast.op = "delete" =>
    /\ \A h \in remoteHooks : h[1] = nCreate => h \in whLast.called
    /\ whLast.ret.joined = whLast.called \cap whLast.failing
    /\ whLast.ret.isNil <=> (whLast.called \cap whLast.failing = {})

\* C12 (as claimed): after Delete has returned the registry is empty.
C12_DeleteClearsRegistry ==
  whLast.op = "delete" => DOMAIN webhooks = {}

\* what the claim's order of checks decides for a delivery
FirstFailingCheck(req) ==
  CASE req.eventType = "" -> "missing_event_type"
    [] req.eventType # "" /\ req.eventType \notin DOMAIN eventToObject
         -> "unsupported_event"
    [] req.eventType \in DOMAIN eventToObject /\ req.signature = ""
         -> "missing_signature"
    [] req.eventType \in DOMAIN eventToObject /\ req.signature # ""
         /\ ~verifyClockifySignature(req.signature, req)
         -> "invalid_signature"
    [] OTHER -> IF req.body = "valid" THEN "nil" ELSE "body"

Finished == {d \in 1..MaxDeliveries : deliveries[d].pc = "done"}

\* C13: a finished delivery returns the error of the first failing check in
\* the order event-type header, event table, signature header, signature
\* verification, body; the errors of different checks differ; the payload is
\* nil when an error is returned, and when no check fails the delivery
\* returns its event type and a non-nil payload holding the decoded body.
C13_OrderedGate ==
  \A d \in Finished :
    LET r == deliveries[d]
        first == FirstFailingCheck(r.req)
    IN /\ first = "body" <=> r.err \in {"read_body", "unmarshal"}
       /\ first # "body" => r.err = first
       /\ r.err # "nil" => r.payload = NilObject
       /\ r.err = "nil" =>
            /\ r.event = r.req.eventType
            /\ r.payload # NilObject
            /\ heap[r.payload].val = <<"doc", d>>

C13_Witness ==
  /\ Finished = 1..MaxDeliveries
  /\ deliveries[1].err = "missing_signature"
  /\ deliveries[1].req.body = "malformed"
  /\ deliveries[2].err = "nil"

\* the object behind a payload, NilObject for a nil payload
Deref(h, addr) == IF addr = NilObject THEN NilObject ELSE h[addr]

\* C14: under every interleaving of deliveries, a finished delivery has the
\* event, the error and the payload contents it has when it runs alone; the
\* event table and its template objects are never modified; a payload is
\* never a template of the table and never the payload of another delivery.
C14_ConcurrentDeliveries ==
  /\ table = eventToObject
  /\ \A a \in DOMAIN Templates : heap[a] = Templates[a]
  /\ \A d \in Finished :
       LET r == deliveries[d]
           alone == ProcessWebhook(Templates, eventToObject, d, r.req)
       IN /\ r.event = alone.event
          /\ r.err = alone.err
          /\ Deref(heap, r.payload) = Deref(alone.heap, alone.payload)
          /\ r.payload # NilObject =>
               /\ r.payload \notin Range(table)
               /\ \A c \in Finished \ {d} : deliveries[c].payload # r.payload

C14_Witness ==
  /\ deliveries[1].pc = "decode"
  /\ deliveries[2].pc = "done"
  /\ deliveries[2].err = "nil"
  /\ deliveries[2].req.eventType = deliveries[1].req.eventType
  /\ deliveries[2].payload < deliveries[1].obj

\* the positions at which "/TASK" occurs in a name
SlashTaskAt(name) ==
  {k \in 1..(Len(name) - 4) : SubSeq(name, k, k + 4) = StrSlashTask}

\* the name is <project>/TASK<digits>, split at its last "/TASK", with a
\* non-empty project part and a non-empty run of digits
HasTaskForm(name) ==
  /\ SlashTaskAt(name) # {}
  /\ LET k == CHOOSE q \in SlashTaskAt(name) : \A o \in SlashTaskAt(name) : o <= q
     IN /\ k > 1
        /\ k + 5 <= Len(name)
        /\ \A q \in (k + 5)..Len(name) : name[q] \in Digits

LastSlashTask(name) ==
  CHOOSE q \in SlashTaskAt(name) : \A o \in SlashTaskAt(name) : o <= q

Parsed == probe.fn = "ParseTaskName"

\* C15 (as claimed): ParseTaskName succeeds exactly on the names
\* <project>/TASK<digits>; then the project name is the trimmed text before
\* the last "/TASK", the task number the trailing digits and the new task
\* name "TASK " followed by the number; on any other name it fails.
C15_ParseExactlyTaskForm ==
  Parsed =>
    /\ probe.out.ok <=> HasTaskForm(probe.name)
    /\ probe.out.ok =>
         LET k == LastSlashTask(probe.name)
         IN /\ probe.out.ProjectName = TrimSpace(SubSeq(probe.name, 1, k - 1))
            /\ probe.out.TaskNumber = SubSeq(probe.name, k + 5, Len(probe.name))
            /\ probe.out.NewTaskName = StrTaskPrefix \o probe.out.TaskNumber

\* C16 (as claimed): the client name is the mapping's entry for the project
\* name when there is one, else "<project name> Client" when CreateClients is
\* set, else the default client name.
C16_ClientNamePrecedence ==
  (Parsed /\ probe.out.ok) =>
    LET cfg == probe.cfg
        project == probe.out.ProjectName
        mapped == ~cfg.ClientMapping.isNil /\ project \in DOMAIN cfg.ClientMapping.map
    IN probe.out.ClientName =
         IF mapped THEN cfg.ClientMapping.map[project]
         ELSE IF cfg.CreateClients THEN project \o StrClientSuffix
         ELSE cfg.DefaultClientName

Named == probe.fn = "makeWebhookName"

\* C17: the name makeWebhookName returns is at most 30 bytes long, for the
\* empty workspace name, names longer than 20 bytes, names with control
\* characters and names with multibyte characters.
C17_NameAtMost30 ==
  Named => Len(probe.out) <= maxWebhookNameLength

\* a name longer than 20 bytes whose cut splits a multibyte rune, so that
\* the stripped prefix grows beyond 20 bytes and the name is cut to 30
C17_Witness ==
  /\ Named
  /\ Len(probe.name) > cutLength
  /\ probe.name[cutLength][2] < RuneWidth(probe.name[cutLength][1])
  /\ Len(probe.full) > maxWebhookNameLength
  /\ Len(probe.out) = maxWebhookNameLength


\* the state of the run: a run that has returned an error is "Failed", one
\* that has returned nil is "Finalized"
RunState ==
  CASE pc \in {"start", "initializing"} -> "Initializing"
    [] pc = "fetching" -> "Fetching"
    [] pc \in {"processing", "crashed"} -> "ProcessingBatches"
    [] pc = "returned" /\ ret = "nil" -> "Finalized"
    [] OTHER -> "Failed"

StateOrder ==
  { <<"Initializing", "Fetching">>, <<"Fetching", "ProcessingBatches">>,
    <<"ProcessingBatches", "Finalized">> }

RunStateNext == RunState'

StatsNext == stats'

\* C18 (as claimed): the run changes state only along Initializing, Fetching,
\* ProcessingBatches, Finalized; ExecuteMigration has returned only in
\* Finalized, with the end timestamp stamped, and nothing changes after it.
C18_StatesInOrder ==
  [][ /\ RunStateNext # RunState => <<RunState, RunStateNext>> \in StateOrder
      /\ pc' = "returned" => (RunStateNext = "Finalized" /\ StatsNext.EndTimeSet)
      /\ RunState = "Finalized" => UNCHANGED <<pc, ret, stats>> ]_vars

\* C18 (amended): the run changes state only along Initializing, Fetching,
\* ProcessingBatches, Finalized, or from Initializing or Fetching to a failed
\* return; a nil return happens only in Finalized, reached from
\* ProcessingBatches with the end timestamp stamped; an error return happens
\* only from Initializing or Fetching and without the end timestamp; nothing
\* changes after a return.
C18_StatesInOrderOrFailed ==
  [][ /\ RunStateNext # RunState =>
           <<RunState, RunStateNext>> \in
              StateOrder \cup { <<"Initializing", "Failed">>,
                                <<"Fetching", "Failed">> }
      /\ RunStateNext = "Finalized" => StatsNext.EndTimeSet
      /\ RunStateNext = "Failed" =>
           (~StatsNext.EndTimeSet /\ ret' \in {"init_error", "fetch_error"})
      /\ pc = "returned" => UNCHANGED <<pc, ret, stats>> ]_vars

C18_Witness ==
  /\ RunState = "Finalized"
  /\ stats.EndTimeSet
  /\ Len(timeEntries) = 2
  /\ Len(stats.Errors) = 1

\* C19 (as claimed): the caller's config object has the field values the
\* caller gave it, after NewMigrationService and throughout ExecuteMigration.
C19_ConfigNeverMutated ==
  config = input.config

\* C20 (as claimed): the run eventually returns to its caller.
C20_RunReturns ==
  <>(pc = "returned")

\* the entries handed to processTimeEntry so far that got as far as client
\* resolution: their task was found and its name parsed
ReachedClient ==
  {k \in 1..Len(hist.results) :
     hist.results[k].err \notin {"source_task", "parse"}}

\* what ParseTaskName made of the task name of the k-th fetched entry
MappingOf(k) == ParseTaskName(config, SourceTasks[timeEntries[k].TaskID])

\* the remote calls that belong to project, task and time-entry handling
LaterCalls ==
  {"IterProjects", "CreateProject", "IterProjectTasks(target)", "CreateTask",
   "CreateTimeEntryForUser"}

\* C21 (as claimed): with CreateClients off, in a live run and in a dry run
\* alike, an entry whose client name is not in the client cache fails with
\* the client error; it is recorded in Errors and no project, task or
\* time-entry call is made for it.
C21_ClientCreationDisabled ==
  ~config.CreateClients =>
    \A k \in ReachedClient :
      MappingOf(k).ClientName \notin DOMAIN cache.clients =>
        /\ hist.results[k].err = "client"
        /\ hist.results[k].entry \in ErrorIDs
        /\ k = Len(hist.results) =>
             \A c \in 1..Len(hist.calls) : hist.calls[c] \notin LaterCalls

\* the step of processTimeEntry a remote call belongs to: 0 source task,
\* 1 client, 2 project, 3 task, 4 time entry
StepOfCall(c) ==
  CASE c = "IterProjectTasks(source)" -> 0
    [] c = "CreateClient" -> 1
    [] c \in {"IterProjects", "CreateProject"} -> 2
    [] c \in {"IterProjectTasks(target)", "CreateTask"} -> 3
    [] c = "CreateTimeEntryForUser" -> 4

\* the step at which processTimeEntry returned
StepOfResult(err) ==
  CASE err \in {"source_task", "parse"} -> 0
    [] err = "client" -> 1
    [] err = "project" -> 2
    [] err = "task" -> 3
    [] OTHER -> 4

\* C22: the remote calls of an entry are issued in the order source task,
\* client, project, task, time entry (within project and task: the listing
\* before the create), and no call belongs to a step after the one at which
\* the entry failed.
C22_DependencyOrder ==
  hist.results # <<>> =>
    LET calls == hist.calls
        last == hist.results[Len(hist.results)]
    IN /\ \A a, b \in 1..Len(calls) :
            a < b => /\ StepOfCall(calls[a]) <= StepOfCall(calls[b])
                     /\ calls[a] # calls[b]
                     /\ calls[b] \notin {"IterProjects",
                                         "IterProjectTasks(target)"}
                          \/ StepOfCall(calls[a]) < StepOfCall(calls[b])
       /\ \A a \in 1..Len(calls) :
            StepOfCall(calls[a]) <= StepOfResult(last.err)

\* an entry for which client, project and task are created and whose
\* time-entry call fails
C22_Witness ==
  /\ hist.results # <<>>
  /\ hist.results[Len(hist.results)].err = "time_entry"
  /\ hist.calls = <<"IterProjectTasks(source)", "CreateClient", "IterProjects",
                    "CreateProject", "IterProjectTasks(target)", "CreateTask",
                    "CreateTimeEntryForUser">>

\* C23: the entries are processed in fetch order, each once, in contiguous
\* batches of the configured size (50 if the configured size is <= 0) that
\* follow one another; only the last batch is shorter.
C23_Batching ==
  /\ pc \in {"processing", "crashed"} \/ (pc = "returned" /\ ret = "nil") =>
       /\ config.BatchSize =
            (IF input.config.BatchSize <= 0 THEN DefaultBatchSize
                                            ELSE input.config.BatchSize)
       /\ loop.i % config.BatchSize = 0
       /\ Len(hist.results) <= Len(timeEntries)
       /\ \A k \in 1..Len(hist.results) :
            hist.results[k].entry = timeEntries[k].ID
       /\ loop.inBatch =>
            /\ loop.i < Len(timeEntries)
            /\ loop.end <= Len(timeEntries)
            /\ loop.end - loop.i <= config.BatchSize
            /\ loop.end - loop.i = config.BatchSize
                 \/ loop.end = Len(timeEntries)
            /\ loop.i <= loop.pos /\ loop.pos <= loop.end
            /\ Len(hist.results) = loop.pos + (IF pc = "crashed" THEN 1 ELSE 0)
       /\ ~loop.inBatch =>
            Len(hist.results) =
              (IF loop.i >= Len(timeEntries) THEN Len(timeEntries) ELSE loop.i)
  /\ pc = "returned" /\ ret = "nil" =>
       /\ Len(hist.results) = Len(timeEntries)
       /\ stats.TimeEntriesProcessed + Len(stats.Errors) = Len(timeEntries)

\* two entries processed in two batches of one
C23_Witness ==
  /\ pc = "returned" /\ ret = "nil"
  /\ config.BatchSize = 1
  /\ Len(timeEntries) = 2
  /\ loop.i = 2
  /\ Len(hist.results) = 2

\* in a dry run, entry k's project and task are in their caches once
\* resolved
DryRunProjectTaskCached(k) ==
  LET m == MappingOf(k)
      e == hist.results[k].err
  IN /\ e \notin {"client", "project"} =>
          m.ProjectName \in DOMAIN cache.projects
     /\ e \notin {"client", "project", "task"} =>
          TaskKey(cache.projects[m.ProjectName].ID, m.NewTaskName)
            \in DOMAIN cache.tasks

\* C24 (as claimed): in a dry run every client, project and task that has
\* been resolved is in its cache afterwards, under the key a live run uses,
\* the sentinel included.
C24_DryRunSentinelCached ==
  config.DryRun =>
    \A k \in ReachedClient :
      /\ hist.results[k].err # "client" =>
           MappingOf(k).ClientName \in DOMAIN cache.clients
      /\ DryRunProjectTaskCached(k)

\* the create calls of the step, by name, are for names the target does not
\* hold when the step starts
CreatesOnlyAbsent ==
  /\ \A n \in DOMAIN hist'.cClient :
       Count(hist'.cClient, n) > Count(hist.cClient, n) =>
         \A c \in remote.clients : c.Name # n
  /\ \A n \in DOMAIN hist'.cProject :
       Count(hist'.cProject, n) > Count(hist.cProject, n) =>
         \A p \in remote.projects : p.Name # n
  /\ \A key \in DOMAIN hist'.cTask :
       Count(hist'.cTask, key) > Count(hist.cTask, key) =>
         \A t \in remote.tasks : TaskKey(t.ProjectID, t.Name) # key

\* a create call of a project or task comes right after its listing call
ListedBeforeCreate ==
  \A c \in 1..Len(hist'.calls) :
    /\ hist'.calls[c] = "CreateProject" =>
         c > 1 /\ hist'.calls[c - 1] = "IterProjects"
    /\ hist'.calls[c] = "CreateTask" =>
         c > 1 /\ hist'.calls[c - 1] = "IterProjectTasks(target)"

\* a name the step adds to a cache while the target holds it is cached as the
\* target's entity, and the created counter of its kind stays as it was
RemoteMatchCached ==
  /\ \A n \in DOMAIN cache'.clients \ DOMAIN cache.clients :
       (\E c \in remote.clients : c.Name = n) =>
         /\ cache'.clients[n] \in remote.clients
         /\ stats'.ClientsCreated = stats.ClientsCreated
  /\ \A n \in DOMAIN cache'.projects \ DOMAIN cache.projects :
       (\E p \in remote.projects : p.Name = n) =>
         /\ cache'.projects[n] \in remote.projects
         /\ stats'.ProjectsCreated = stats.ProjectsCreated
  /\ \A key \in DOMAIN cache'.tasks \ DOMAIN cache.tasks :
       (\E t \in remote.tasks : TaskKey(t.ProjectID, t.Name) = key) =>
         /\ cache'.tasks[key] \in remote.tasks
         /\ stats'.TasksCreated = stats.TasksCreated

CreatedClients == remote.clients \ input.remote.clients
CreatedProjects == remote.projects \ input.remote.projects
CreatedTasks == remote.tasks \ input.remote.tasks

\* the created counters are the numbers of entities the successful create
\* calls added to the target, each of them cached under its key
CountersMatchCreates ==
  ~config.DryRun =>
    /\ stats.ClientsCreated = Cardinality(CreatedClients)
    /\ stats.ProjectsCreated = Cardinality(CreatedProjects)
    /\ stats.TasksCreated = Cardinality(CreatedTasks)
    /\ stats.TimeEntriesCreated =
         Len(remote.timeEntries) - Len(input.remote.timeEntries)
    /\ \A c \in CreatedClients :
         c.Name \in DOMAIN cache.clients /\ cache.clients[c.Name] = c
    /\ \A p \in CreatedProjects :
         p.Name \in DOMAIN cache.projects /\ cache.projects[p.Name] = p
    /\ \A t \in CreatedTasks :
         /\ TaskKey(t.ProjectID, t.Name) \in DOMAIN cache.tasks
         /\ cache.tasks[TaskKey(t.ProjectID, t.Name)] = t

\* a step whose last remote call is a failed create leaves the counter and
\* the cache of that kind as they were
FailedCreateChangesNothing ==
  hist'.failures > hist.failures /\ hist'.calls # <<>> =>
    LET failed == hist'.calls[Len(hist'.calls)]
    IN /\ failed = "CreateClient" =>
            /\ stats'.ClientsCreated = stats.ClientsCreated
            /\ cache'.clients = cache.clients
       /\ failed = "CreateProject" =>
            /\ stats'.ProjectsCreated = stats.ProjectsCreated
            /\ cache'.projects = cache.projects
       /\ failed = "CreateTask" =>
            /\ stats'.TasksCreated = stats.TasksCreated
            /\ cache'.tasks = cache.tasks
       /\ failed = "CreateTimeEntryForUser" =>
            stats'.TimeEntriesCreated = stats.TimeEntriesCreated

\* C26: in a live run each created counter equals the number of successful
\* calls of its create endpoint so far, every counted client, project and
\* task is in its cache, and a failed create changes neither counter nor
\* cache.
C26_CountersEqualCreates ==
  []CountersMatchCreates /\ [][FailedCreateChangesNothing]_vars

\* a live run that created a client, a project, a task and a time entry for
\* its first entry and whose second entry failed in CreateTask
C26_Witness ==
  /\ ~config.DryRun
  /\ stats.ClientsCreated = 1 /\ stats.ProjectsCreated = 1
  /\ stats.TasksCreated = 1 /\ stats.TimeEntriesCreated = 1
  /\ Len(hist.results) = 2
  /\ hist.results[2].err = "task"
  /\ hist.calls[Len(hist.calls)] = "CreateTask"

\* the fetched entry a posted request was built for
SourceOf(posted) ==
  CHOOSE e \in {timeEntries[k] : k \in 1..Len(timeEntries)} :
    e.ID = posted.source

\* C27: every time entry created in the target carries its source entry's
\* start, end, billable flag, description and tags, is posted for the current
\* user to the target workspace, and names the project and the task that
\* the resolution of that entry's task name returned.
C27_TimeEntryPreserved ==
  \A k \in 1..Len(remote.timeEntries) :
    LET posted == remote.timeEntries[k]
        e == SourceOf(posted)
        m == ParseTaskName(config, SourceTasks[e.TaskID])
        project == cache.projects[m.ProjectName]
        task == cache.tasks[TaskKey(project.ID, m.NewTaskName)]
    IN /\ \E j \in 1..Len(timeEntries) : timeEntries[j].ID = posted.source
       /\ posted.request.Start = e.Start
       /\ posted.request.End = e.End
       /\ posted.request.Billable = e.Billable
       /\ posted.request.Description = e.Description
       /\ posted.request.TagIDs = e.TagIDs
       /\ posted.workspaceID = TargetWorkspaceID
       /\ posted.userID = CurrentUserID
       /\ posted.request.ProjectID = project.ID
       /\ posted.request.TaskID = task.ID
       /\ project \in remote.projects
       /\ task \in remote.tasks
       /\ task.ProjectID = project.ID

\* two entries of different projects, both created in the target
C27_Witness ==
  /\ ~config.DryRun
  /\ Len(remote.timeEntries) = 2
  /\ remote.timeEntries[1].request.ProjectID
       # remote.timeEntries[2].request.ProjectID
  /\ remote.timeEntries[1].request.TagIDs # remote.timeEntries[2].request.TagIDs

\* a step of Create deletes nothing; when a call failed it was the last one
\* and the webhooks registered by the calls before it are in the workspace
CreateStopsAndKeeps ==
  nCreate' = nCreate + 1 =>
    /\ remoteHooks \subseteq remoteHooks'
    /\ whLast'.err =>
         /\ whLast'.failed = Len(whLast'.calls)
         /\ Cardinality(DOMAIN whLast'.made) = Len(whLast'.calls) - 1
         /\ \A k \in 1..(Len(whLast'.calls) - 1) :
              /\ whLast'.calls[k].request.Event \in DOMAIN whLast'.made
              /\ whLast'.made[whLast'.calls[k].request.Event] \in remoteHooks'
         /\ remoteHooks' \ remoteHooks = Range(whLast'.made)

\* C28: a Create whose registration call fails issues no further registration
\* call and no delete call; the webhooks its earlier calls registered stay
\* registered in the workspace.
C28_CreateNoRollback == [][CreateStopsAndKeeps]_vars

\* a Create whose third call failed, after two registrations
C28_Witness ==
  /\ whLast.op = "create"
  /\ whLast.err
  /\ whLast.failed = 3
  /\ Len(whLast.calls) = 3
  /\ Range(whLast.made) \subseteq remoteHooks
  /\ Cardinality(Range(whLast.made)) = 2

\* C29: a Create that succeeds has issued five registration calls, one for
\* each event of the fixed set, all for the same workspace, URL and trigger;
\* the registry it leaves is the same whatever the order of the calls.
C29_CreateRegistersEach ==
  whLast.op = "create" /\ ~whLast.err =>
    /\ Len(whLast.calls) = 5
    /\ {whLast.calls[k].request.Event : k \in 1..Len(whLast.calls)} = Events
    /\ \A i, j \in 1..Len(whLast.calls) :
         i # j => whLast.calls[i].request.Event # whLast.calls[j].request.Event
    /\ \A k \in 1..Len(whLast.calls) :
         /\ whLast.calls[k].workspaceID = ServiceWorkspaceID
         /\ whLast.calls[k].request.TargetURL = ServiceURL
         /\ whLast.calls[k].request.TriggerSourceType = WorkspaceIDTrigger
         /\ whLast.calls[k].request.TriggerSource = <<WorkspaceIDTrigger>>
    /\ webhooks = [e \in Events |-> <<nCreate, e>>]
    /\ Range(webhooks) \subseteq remoteHooks

\* a successful Create that registered NEW_TAG first and TIMER_STOPPED last
C29_Witness ==
  /\ whLast.op = "create"
  /\ ~whLast.err
  /\ whLast.calls[1].request.Event = "NEW_TAG"
  /\ whLast.calls[5].request.Event = "TIMER_STOPPED"
  /\ DOMAIN webhooks = Events

\* the non-empty values of the Clockify-Signature header
SignatureValues == {r.signature : r \in Requests} \ {""}

\* C30: a delivery without a signature header is rejected with the event-type,
\* unsupported-event or missing-signature error, never with a body error, and
\* no object is cloned or decoded for it; a delivery with a signature header
\* returns the event, the error and the payload it would return with any
\* other non-empty signature value.
C30_SignatureFailClosed ==
  \A d \in Finished :
    LET r == deliveries[d]
    IN /\ r.req.signature = "" =>
            /\ r.err \in {"missing_event_type", "unsupported_event",
                          "missing_signature"}
            /\ r.payload = NilObject
            /\ r.obj = NilObject
       /\ r.req.signature # "" =>
            \A s \in SignatureValues :
              LET alone == ProcessWebhook(Templates, table, d,
                                          [r.req EXCEPT !.signature = s])
              IN /\ r.event = alone.event
                 /\ r.err = alone.err
                 /\ Deref(heap, r.payload) = Deref(alone.heap, alone.payload)

\* a delivery without signature and with an unreadable body, rejected for the
\* signature, next to a delivery accepted with signature "s2"
C30_Witness ==
  /\ Finished = 1..MaxDeliveries
  /\ deliveries[1].req.signature = ""
  /\ deliveries[1].req.body = "unreadable"
  /\ deliveries[1].err = "missing_signature"
  /\ deliveries[2].req.signature = "s2"
  /\ deliveries[2].err = "nil"
  /\ deliveries[2].payload # NilObject

\* the user's entries as the source workspace lists them
Listed == WithIDs(input.entries)

\* C31: the entries handed to processing are the user's entries of the source
\* project, all of them, in the order the pages list them; a run whose fetch
\* failed has processed no entry and created nothing.
C31_FetchAllOrNothing ==
  /\ pc \in {"processing", "crashed"} \/ (pc = "returned" /\ ret = "nil") =>
       /\ \A k \in 1..Len(timeEntries) :
            /\ timeEntries[k].ID \in 1..Len(Listed)
            /\ timeEntries[k] = Listed[timeEntries[k].ID]
            /\ timeEntries[k].ProjectID = "src"
       /\ \A j, k \in 1..Len(timeEntries) :
            j < k => timeEntries[j].ID < timeEntries[k].ID
       /\ \A n \in 1..Len(Listed) :
            Listed[n].ProjectID = "src" =>
              \E k \in 1..Len(timeEntries) : timeEntries[k].ID = n
  /\ pc = "returned" /\ ret = "fetch_error" =>
       /\ timeEntries = <<>>
       /\ hist.results = <<>>
       /\ hist.calls = <<>>
       /\ stats.TimeEntriesProcessed = 0
       /\ stats.TimeEntriesCreated = 0
       /\ stats.Errors = <<>>
       /\ remote = input.remote

\* a run whose fetch dropped the first listed entry (another project) and
\* kept the second
C31_Witness ==
  /\ pc = "processing"
  /\ Len(Listed) = 2
  /\ Listed[1].ProjectID = "other"
  /\ Len(timeEntries) = 1
  /\ timeEntries[1].ID = 2

\* the sanitized prefix of a workspace name: its first 20 bytes without white
\* space and control characters, lower-cased
SanitizedPrefix(workspaceName) ==
  LET cut == IF Len(workspaceName) > cutLength
               THEN SubSeq(workspaceName, 1, cutLength) ELSE workspaceName
  IN EncodeRunes(kebabify(SelectSeq(DecodeRunes(cut), Kept)))

\* C32 (as claimed): the name returned is the sanitized prefix, a hyphen, six
\* symbols of the alphabet and the marker "-wh"; it ends with "-wh".
C32_NameComposition ==
  Named =>
    LET out == probe.out
        n == Len(out)
    IN /\ n >= 1 + randomPartLength + Len(suffix)
       /\ SubSeq(out, n - 2, n) = EncodeRunes(suffix)
       /\ \A i \in (n - 8)..(n - 3) : out[i][1] \in {"0", "z", "Z"}
       /\ out[n - 9] = <<"-", 1>>
       /\ SubSeq(out, 1, n - 10) = SanitizedPrefix(probe.name)

Exited == proc.main \in {"exited", "killed"}

\* C33 (as claimed): a process that ends after Create succeeded has called
\* Delete exactly once, at a time when the server accepted no delivery and
\* ran no handler; Create and Delete are never under way together.
C33_DeleteOnEveryExit ==
  /\ Exited /\ proc.created =>
       /\ proc.deletes = 1
       /\ ~proc.deleteSaw.accepting
       /\ proc.deleteSaw.inflight = 0
  /\ proc.deletes <= 1
  /\ proc.main = "inDelete" => proc.created /\ proc.listen # "on"

\* C34 (as claimed): every webhook that is registered in the workspace (made
\* by a Create of this service and not deleted since) is in the registry.
C34_NoStrandedWebhook ==
  remoteHooks \subseteq Range(webhooks)

\* C35 (as claimed): processTimeEntry returns nil or an error for every
\* fetched entry, in a dry run and in a live run, and the run never stops
\* inside an entry.
C35_NoEntryCrashes ==
  /\ pc # "crashed"
  /\ \A k \in 1..Len(hist.results) : hist.results[k].err # "panic"

\* the entries for which the target accepted a time entry
CreatedFor ==
  {remote.timeEntries[k].source : k \in 1..Len(remote.timeEntries)}

\* C36: in a live run the numbers of created and of processed time entries
\* are equal after every entry, every entry with a nil result has exactly one
\* time entry in the target and no entry recorded in Errors has one; in a dry
\* run no time entry is counted as created.
C36_CreatedEqualsProcessed ==
  /\ ~config.DryRun =>
       /\ stats.TimeEntriesCreated = stats.TimeEntriesProcessed
       /\ Cardinality(CreatedFor) = Len(remote.timeEntries)
       /\ CreatedFor =
            {hist.results[k].entry :
               k \in {j \in 1..Len(hist.results) : hist.results[j].err = "nil"}}
       /\ CreatedFor \cap ErrorIDs = {}
       /\ stats.TimeEntriesProcessed = Cardinality(CreatedFor)
  /\ config.DryRun =>
       /\ stats.TimeEntriesCreated = 0
       /\ remote.timeEntries = <<>>

\* a live run with one entry created and one entry failed in the time-entry
\* call
C36_Witness ==
  /\ ~config.DryRun
  /\ Len(hist.results) = 2
  /\ hist.results[1].err = "nil"
  /\ hist.results[2].err = "time_entry"
  /\ stats.TimeEntriesProcessed = 1
  /\ stats.TimeEntriesCreated = 1
  /\ Len(stats.Errors) = 1

\* the run has processed its entries: it returned nil or stopped in an entry
Processed == (pc = "returned" /\ ret = "nil") \/ pc = "crashed"

\* C37: a run and a run with another positive batch size on the same
\* entries, config and target, the remote answering each entry alike, issue
\* the same remote calls and end alike, with the same counters, the same
\* Errors, the same caches and the same target.
C37_BatchSizeIndependence ==
  prev.mode = "batch_twin" /\ Processed =>
    /\ pc = prev.pc
    /\ prev.calls2 = prev.calls
    /\ stats = prev.stats
    /\ cache = prev.cache
    /\ remote = prev.remote

\* two entries, the second failing in a create call, processed as one batch
\* of two and as two batches of one
C37_Witness ==
  /\ prev.mode = "batch_twin"
  /\ pc = "returned" /\ ret = "nil"
  /\ Len(timeEntries) = 2
  /\ config.BatchSize = 1
  /\ Len(prev.calls2) = 2
  /\ Len(stats.Errors) = 1
  /\ stats.TimeEntriesCreated = 1
  /\ hist.failures = 1

HierarchyCreated ==
  stats.ClientsCreated + stats.ProjectsCreated + stats.TasksCreated

\* C38 (as claimed): a second live run after a live run in which no create
\* call failed ends with ClientsCreated, ProjectsCreated and TasksCreated 0.
C38_SecondRunCreatesNothing ==
  prev.mode = "rerun" /\ ~prev.createFailed /\ pc = "returned" /\ ret = "nil" =>
    HierarchyCreated = 0

\* C38 (amended): a second live run after a live run in which no remote call
\* failed issues no create call for a client, a project or a task, keeps the
\* three counters at 0, and every client, project and task in its caches is
\* one the target held when it started.
C38_SecondRunCreatesNothing_Amended ==
  prev.mode = "rerun" /\ prev.failures = 0 =>
    /\ HierarchyCreated = 0
    /\ hist.cClient = <<>> /\ hist.cProject = <<>> /\ hist.cTask = <<>>
    /\ \A n \in DOMAIN cache.clients : cache.clients[n] \in prev.remote.clients
    /\ \A n \in DOMAIN cache.projects :
         cache.projects[n] \in prev.remote.projects
    /\ \A key \in DOMAIN cache.tasks : cache.tasks[key] \in prev.remote.tasks
    /\ remote.clients = prev.remote.clients
    /\ remote.projects = prev.remote.projects
    /\ remote.tasks = prev.remote.tasks

\* a second run that has returned after the first run created two clients,
\* two projects and two tasks, and that found all of them
C38_Witness ==
  /\ prev.mode = "rerun"
  /\ prev.failures = 0
  /\ prev.stats.ClientsCreated = 2
  /\ prev.stats.ProjectsCreated = 2
  /\ prev.stats.TasksCreated = 2
  /\ pc = "returned" /\ ret = "nil"
  /\ hist.failures = 0
  /\ stats.TimeEntriesProcessed = 2
  /\ Cardinality(DOMAIN cache.tasks) = 2

\* C39 (as claimed): when the handler has served a request with a known
\* event type, a signature and a well-formed JSON body, its call of
\* ProcessWebhook returned the event type, a decoded payload and no error.
C39_HandlerDelivers ==
  LET h == proc.last
  IN h.called /\ h.req.eventType \in DOMAIN eventToObject
       /\ h.req.signature # "" /\ h.req.body = "valid" =>
         /\ h.err = "nil"
         /\ h.event = h.req.eventType
         /\ h.payload # NilObject

\* C40 (as claimed): whenever ParseTaskName succeeds, the project name is
\* non-empty and neither starts nor ends with white space, and the task
\* number is a non-empty string of digits.
C40_ParsedWellFormed ==
  (Parsed /\ probe.out.ok) =>
    LET projectName == probe.out.ProjectName
        taskNumber == probe.out.TaskNumber
    IN /\ projectName # <<>>
       /\ Head(projectName) \notin Whitespace
       /\ projectName[Len(projectName)] \notin Whitespace
       /\ taskNumber # <<>>
       /\ \A i \in 1..Len(taskNumber) : taskNumber[i] \in Digits
====
